---- MODULE Spec2Model ----
(***************************************************************************)
(* A model of the round-based protocol engine of go-cggmp-tss: the Update  *)
(* harness of the key generation, signing, refresh and reshare state       *)
(* machines, their round bodies, and a network that carries the messages   *)
(* between the parties of one session.                                     *)
(*                                                                         *)
(* The group of secp256k1 points is modelled by the cyclic group (Z_Q, +)  *)
(* with generator G = 1: a point k*G is the residue k, point addition is   *)
(* addition mod Q and scalar multiplication is multiplication mod Q.  The  *)
(* affine x-coordinate of a point is the residue itself.  Byte strings are *)
(* sequences of integers, one element per fixed-width field.               *)
(***************************************************************************)
EXTENDS Integers, Sequences, FiniteSets, TLC

VARIABLES
    proto,      \* the protocol of the session: "keygen", "keygen1", "sign", "online", "batch", "refresh", "reshare"
    parties,    \* params.Parties: the ordered party list (IDs)
    key,        \* the key the session starts from: its committee, threshold, polynomial
    thr,        \* params.Threshold
    msgToSign,  \* the message hash the callers ask to sign (as a scalar); a list of them for "batch"
    rnd,        \* the random draws of every party (fixed at construction)
    sm,         \* the state machine the caller of each party holds
    net,        \* FIFO channels <<from, to>> of messages sent and not yet delivered
    last,       \* the last Update call: the instance and message it was given, its return
    injected,   \* number of messages fed that no honest party sent
    duplicated  \* number of messages the network delivered a second time

vars == <<proto, parties, key, thr, msgToSign, rnd, sm, net, last, injected, duplicated>>

(***************************************************************************)
(* Bounds and domains of the model.                                        *)
(***************************************************************************)
\* The order of the group (curve.Params().N), a small prime.
Q == 7

\* Number of messages the environment may feed that no honest party sent.
MaxInject == 1

\* Number of messages the network may deliver a second time.
MaxDup == 1

\* A sender that is in no party list.
Outsider == "9"

\* Party lists of the sessions explored, each sorted.  IDs are opaque
\* strings; the lists cover IDs equal to the 1-based position, numeric IDs
\* that differ from the position and non-numeric IDs (examples/wasm uses
\* "party-1", ...).
PartyLists == { <<"1", "2">>, <<"1", "2", "3">>, <<"2", "3">>, <<"a", "b">> }

AllIDs == {"1", "2", "3", "a", "b"}
Senders == AllIDs \cup {Outsider}

\* The value big.Int.SetString(id, 10) leaves in the receiver: the decimal
\* value of id, or 0 when id is no decimal numeral.
IdNum(id) ==
    CASE id = "1" -> 1
      [] id = "2" -> 2
      [] id = "3" -> 3
      [] id = "9" -> 9
      [] OTHER -> 0

SeqToSet(s) == { s[i] : i \in 1..Len(s) }

\* Position (1-based) of id in list, 0 when absent.
IndexOf(list, id) ==
    IF id \in SeqToSet(list)
    THEN CHOOSE i \in 1..Len(list) : list[i] = id
    ELSE 0

(***************************************************************************)
(* Scalar and group arithmetic.                                            *)
(***************************************************************************)
ModQ(x) == ((x % Q) + Q) % Q

RECURSIVE Pow(_, _)
Pow(b, e) == IF e = 0 THEN 1 % Q ELSE ModQ(b * Pow(b, e - 1))

\* big.Int.ModInverse: the inverse mod Q, or -1 (nil) when there is none.
ModInverse(x) ==
    IF \E y \in 1..(Q-1) : ModQ(x * y) = 1
    THEN CHOOSE y \in 1..(Q-1) : ModQ(x * y) = 1
    ELSE -1

ScalarBaseMult(k) == ModQ(k)
ScalarMult(P, k) == ModQ(P * k)
PointAdd(P1, P2) == ModQ(P1 + P2)

\* polynomial.Evaluate: Horner's rule mod Q over coefficients a_0..a_t.
RECURSIVE Horner(_, _, _, _)
Horner(coeffs, x, i, acc) ==
    IF i = 0 THEN acc
    ELSE Horner(coeffs, x, i - 1, ModQ(acc * x + coeffs[i]))

Evaluate(coeffs, x) == Horner(coeffs, x, Len(coeffs) - 1, coeffs[Len(coeffs)])

\* Feldman commitments A_k = a_k * G of a polynomial.
VssCommitments(coeffs) == [k \in 1..Len(coeffs) |-> ScalarBaseMult(coeffs[k])]

\* sum_k idx^k * A_k over the first n points of vss (the loops of round 3/4).
RECURSIVE VssEval(_, _, _)
VssEval(vss, idx, n) ==
    IF n = 0 THEN 0
    ELSE PointAdd(VssEval(vss, idx, n - 1), ScalarMult(vss[n], Pow(idx, n - 1)))

RECURSIVE SumSeq(_)
SumSeq(s) == IF s = <<>> THEN 0 ELSE Head(s) + SumSeq(Tail(s))

RECURSIVE SetToSeqs(_)
\* All orders in which a finite set can be enumerated (Go map iteration).
SetToSeqs(S) ==
    IF S = {} THEN { <<>> }
    ELSE UNION { { <<x>> \o r : r \in SetToSeqs(S \ {x}) } : x \in S }

\* big.Int.SetBytes of a byte string: big-endian, the empty string is 0.
RECURSIVE BytesToInt(_)
BytesToInt(b) ==
    IF b = <<>> THEN 0
    ELSE BytesToInt(SubSeq(b, 1, Len(b) - 1)) * 256 + b[Len(b)]

\* A Go map with key k set to v.
MapPut(f, k, v) == [x \in (DOMAIN f) \cup {k} |-> IF x = k THEN v ELSE f[x]]

\* A Go map lookup that yields the zero value (an empty byte string) when absent.
MapGet(f, k) == IF k \in DOMAIN f THEN f[k] ELSE <<>>

(***************************************************************************)
(* The parties of a session, their random draws and the key they hold.     *)
(***************************************************************************)
\* The parties that take part in the session.
Members == SeqToSet(parties) \cup (IF proto = "reshare" THEN SeqToSet(key.list) ELSE {})

IdOrder == <<"1", "2", "3", "a", "b">>

\* Coefficient vectors a party may draw; a polynomial of degree t is the
\* first t+1 entries.  Zero coefficients, which a uniform draw from [0, q)
\* yields with negligible probability, are left out.
Coeffs == << <<1, 2, 1>>, <<3, 1, 2>> >>

\* Pairs (k_i, gamma_i) a signer may draw.
Nonces == << <<1, 2>>, <<2, 3>> >>

\* The 32-byte salt and the Paillier modulus a party draws, one value each;
\* a modulus drawn in a later session differs from the one of the key.
SaltOf(id) == 40 + IndexOf(IdOrder, id)
PaillierModulus(id) == 100 + IndexOf(IdOrder, id)

\* The random draws of party id: v selects among the vectors above.
Draw(id, v, t) ==
    [poly |-> SubSeq(Coeffs[v], 1, t + 1), salt |-> SaltOf(id),
     paillierN |-> PaillierModulus(id) + (IF proto = "keygen" THEN 0 ELSE 100),
     nonce |-> 1 + (SaltOf(id) % 3),
     k |-> Nonces[v][1], gamma |-> Nonces[v][2],
     beta |-> 10 + SaltOf(id), nu |-> 20 + SaltOf(id)]

\* The draws of all members: consecutive parties draw different vectors.
DrawProfiles(t, seeds) ==
    { [id \in Members |-> Draw(id, 1 + ((IndexOf(IdOrder, id) + seed) % 2), t)]
      : seed \in seeds }

NoKey == [list |-> <<>>, thr |-> 0, poly |-> <<>>]

\* LocalPartySaveData an honest DKG over key.list leaves with party id:
\* x_i = F(i) for the joint polynomial F at the party's 1-based position,
\* X = F(0)*G, and the peers' Paillier moduli.
KeyData(id) ==
    LET xi == Evaluate(key.poly, IndexOf(key.list, id))
    IN  [paillierN |-> PaillierModulus(id),
         peerPks |-> [p \in SeqToSet(key.list) \ {id} |-> PaillierModulus(p)],
         Xi |-> xi, XiPoint |-> ScalarBaseMult(xi),
         PublicKey |-> ScalarBaseMult(key.poly[1])]

(***************************************************************************)
(* Commitments and Schnorr proofs.                                         *)
(***************************************************************************)
\* SHA-256 is modelled as an injective function of its input: the digest of
\* a byte string is the string itself behind a length tag.
Sha256(b) == <<Len(b)>> \o b

\* commitment.New: C = H(salt || data), D = salt.
CommitmentNew(salt, data) == [C |-> Sha256(<<salt>> \o data), D |-> salt]

\* commitment.Verify.
CommitmentVerify(c, d, data) == c = Sha256(<<d>> \o data)

\* schnorr challenge e = H(X, R) mod n, a fixed function of the two points.
SchnorrChallenge(X, R) == ModQ(2 * X + 3 * R + 1)

\* schnorr.Prove with nonce k: R = k*G, s = k + e*x.
SchnorrProve(x, X, k) ==
    LET R == ScalarBaseMult(k)
    IN  [R |-> R, S |-> ModQ(k + SchnorrChallenge(X, R) * x)]

\* schnorr.Verify: 0 <= s < n and s*G = R + e*X.
SchnorrVerify(proof, X) ==
    /\ proof.S >= 0
    /\ proof.S < Q
    /\ ScalarBaseMult(proof.S) = PointAdd(proof.R, ScalarMult(X, SchnorrChallenge(X, proof.R)))

(***************************************************************************)
(* Messages and return values of Update.                                   *)
(***************************************************************************)
Bcast == "*"

Msg(f, t, ty, r, p) == [from |-> f, to |-> t, type |-> ty, round |-> r, payload |-> p]

\* next = nil: the caller is handed no state machine.
RetNil(self, err, blame) ==
    [nk |-> "nil", next |-> self, out |-> <<>>, err |-> err, blame |-> blame, self |-> self]

\* next = s: the instance that received the call.
RetSame(self, out) ==
    [nk |-> "same", next |-> self, out |-> out, err |-> "", blame |-> "", self |-> self]

\* next = a newly allocated state object.
RetNew(self, next, out) ==
    [nk |-> IF next.kind = "finished" THEN "finished" ELSE "new",
     next |-> next, out |-> out, err |-> "", blame |-> "", self |-> self]

\* The peers of me in the party list, in list order.
Peers(list, me) == SelectSeq(list, LAMBDA p : p # me)

(***************************************************************************)
(* Key generation (DKG): state machine and round bodies.                   *)
(***************************************************************************)
\* The state object NewStateMachine allocates.
KeygenNewState ==
    [kind |-> "state", round |-> 1, recv |-> <<>>,
     temp |-> [salt |-> -1, vss |-> <<>>, poly |-> <<>>, peerComm |-> <<>>, allVss |-> <<>>],
     save |-> [paillierN |-> -1, peerPks |-> <<>>, Xi |-> -1, XiPoint |-> -1, PublicKey |-> -1]]

\* CommitData of round 1: Paillier N followed by the VSS points, fixed width.
KeygenCommitData(n, vss) == <<n>> \o vss

\* Round 1: Paillier key, polynomial of degree Threshold, VSS commitments,
\* commitment to (N || VSS); broadcasts C and stays in round 1.
KeygenRound1(s, me) ==
    LET poly == rnd[me].poly
        vss == VssCommitments(poly)
        comm == CommitmentNew(rnd[me].salt, KeygenCommitData(rnd[me].paillierN, vss))
        s1 == [s EXCEPT !.temp.salt = comm.D, !.temp.vss = vss, !.temp.poly = poly,
                        !.save.paillierN = rnd[me].paillierN]
    IN  RetSame(s1, << Msg(me, Bcast, "KeyGenRound1", 1, comm.C) >>)

\* Round 2 that decommits but sends no share.
KeygenRound2NoShares(s, me) ==
    LET s1 == [s EXCEPT !.temp.peerComm = [id \in DOMAIN s.recv |-> s.recv[id][1].payload]]
    IN  RetNew(s1, [s1 EXCEPT !.round = 2, !.recv = <<>>],
               << Msg(me, Bcast, "KeyGenRound2_Decommit", 2,
                      <<s.temp.salt>> \o KeygenCommitData(s.save.paillierN, s.temp.vss)) >>)

\* Round 2: record the peers' commitments, decommit, send one share per peer
\* evaluated at the peer's 1-based position in the party list.
KeygenRound2(s, me) ==
    LET peerComm == [id \in DOMAIN s.recv |-> s.recv[id][1].payload]
        s1 == [s EXCEPT !.temp.peerComm = peerComm]
        payload == <<s.temp.salt>> \o KeygenCommitData(s.save.paillierN, s.temp.vss)
        peerIdx == SelectSeq([i \in 1..Len(parties) |-> i], LAMBDA i : parties[i] # me)
        shares == [n \in 1..Len(peerIdx) |->
                     Msg(me, parties[peerIdx[n]], "KeyGenRound2_Share", 2,
                         <<Evaluate(s.temp.poly, peerIdx[n])>>)]
        newState == [s1 EXCEPT !.round = 2, !.recv = <<>>]
    IN  RetNew(s1, newState,
               << Msg(me, Bcast, "KeyGenRound2_Decommit", 2, payload) >> \o shares)

\* A variant of the loop body of round 3 that parses the peer's Paillier
\* modulus and does not store it in PeerPaillierPks.
KeygenRound3PeerDropsPaillier(s, me, id, acc) ==
    LET msgs == s.recv[id]
        decs == SelectSeq(msgs, LAMBDA m : m.type = "KeyGenRound2_Decommit")
        shs == SelectSeq(msgs, LAMBDA m : m.type = "KeyGenRound2_Share")
        payload == decs[Len(decs)].payload
        salt == payload[1]
        data == Tail(payload)
        comm == MapGet(s.temp.peerComm, id)
        stored == acc
        vssData == Tail(data)
        vssPoly == SubSeq(vssData, 1, thr + 1)
        share == BytesToInt(shs[Len(shs)].payload)
        myIdx == IdNum(me)
    IN  IF decs = <<>> \/ shs = <<>>
          THEN [acc EXCEPT !.err = "missing messages from party"]
        ELSE IF Len(payload) < 1
          THEN [acc EXCEPT !.err = "invalid decommitment length"]
        ELSE IF ~CommitmentVerify(comm, salt, data)
          THEN [acc EXCEPT !.err = "commitment verification failed", !.blame = id]
        ELSE IF Len(data) < 1
          THEN [acc EXCEPT !.err = "data too short for Paillier N"]
        ELSE IF Len(vssData) < thr + 1
          THEN [stored EXCEPT !.err = "panic: slice bounds out of range"]
        ELSE IF ScalarBaseMult(share) # VssEval(vssPoly, myIdx, thr + 1)
          THEN [stored EXCEPT !.err = "vss share verification failed", !.blame = id]
        ELSE [stored EXCEPT !.xi = ModQ(acc.xi + share),
                            !.X = PointAdd(acc.X, vssPoly[1]),
                            !.allVss = MapPut(acc.allVss, id, vssPoly)]

\* One iteration of the loop of round 3 over receivedMsgs, for sender id.
\* acc carries xi, X, PeerPaillierPks, allVss and the error that ended the loop.
KeygenRound3Peer(s, me, id, acc) ==
    LET msgs == s.recv[id]
        decs == SelectSeq(msgs, LAMBDA m : m.type = "KeyGenRound2_Decommit")
        shs == SelectSeq(msgs, LAMBDA m : m.type = "KeyGenRound2_Share")
        payload == decs[Len(decs)].payload
        salt == payload[1]
        data == Tail(payload)
        comm == MapGet(s.temp.peerComm, id)
        stored == [acc EXCEPT !.peerPks = MapPut(acc.peerPks, id, data[1])]
        vssData == Tail(data)
        vssPoly == SubSeq(vssData, 1, thr + 1)
        share == BytesToInt(shs[Len(shs)].payload)
        myIdx == IdNum(me)
    IN  IF decs = <<>> \/ shs = <<>>
          THEN [acc EXCEPT !.err = "missing messages from party"]
        ELSE IF Len(payload) < 1
          THEN [acc EXCEPT !.err = "invalid decommitment length"]
        ELSE IF ~CommitmentVerify(comm, salt, data)
          THEN [acc EXCEPT !.err = "commitment verification failed", !.blame = id]
        ELSE IF Len(data) < 1
          THEN [acc EXCEPT !.err = "data too short for Paillier N"]
        ELSE IF Len(vssData) < thr + 1
          THEN [stored EXCEPT !.err = "panic: slice bounds out of range"]
        ELSE IF ScalarBaseMult(share) # VssEval(vssPoly, myIdx, thr + 1)
          THEN [stored EXCEPT !.err = "vss share verification failed", !.blame = id]
        ELSE [stored EXCEPT !.xi = ModQ(acc.xi + share),
                            !.X = PointAdd(acc.X, vssPoly[1]),
                            !.allVss = MapPut(acc.allVss, id, vssPoly)]

RECURSIVE KeygenRound3Loop(_, _, _, _)
KeygenRound3Loop(s, me, order, acc) ==
    IF order = <<>> \/ acc.err # "" THEN acc
    ELSE KeygenRound3Loop(s, me, Tail(order), KeygenRound3Peer(s, me, Head(order), acc))

\* A variant of round 3 whose public key leaves out the party's own A_{i,0}.
KeygenRound3WithoutOwnTerm(s, me, order) ==
    LET acc == KeygenRound3Loop(s, me, order,
                   [xi |-> Evaluate(s.temp.poly, IdNum(me)), X |-> 0,
                    peerPks |-> s.save.peerPks,
                    allVss |-> MapPut(<<>>, me, VssCommitments(s.temp.poly)),
                    err |-> "", blame |-> ""])
        s1 == [s EXCEPT !.save.peerPks = acc.peerPks, !.save.Xi = acc.xi,
                        !.save.XiPoint = ScalarBaseMult(acc.xi),
                        !.save.PublicKey = acc.X, !.temp.allVss = acc.allVss]
        proof == SchnorrProve(acc.xi, ScalarBaseMult(acc.xi), rnd[me].nonce)
    IN  IF acc.err # "" THEN RetNil([s EXCEPT !.save.peerPks = acc.peerPks], acc.err, acc.blame)
        ELSE RetNew(s1, [s1 EXCEPT !.round = 3, !.recv = <<>>],
                    << Msg(me, Bcast, "KeyGenRound3_Proof", 3,
                           <<ScalarBaseMult(acc.xi), proof.R, proof.S>>) >>)

\* Round 3: verify decommitments and shares, x_i = f_i(myIdx) + sum of the
\* shares, X = sum of A_{j,0}, Schnorr proof of x_i.  myIdx is the party's ID
\* parsed as a decimal number.
KeygenRound3(s, me, order) ==
    LET poly == s.temp.poly
        acc0 == [xi |-> Evaluate(poly, IdNum(me)),
                 X |-> ScalarBaseMult(poly[1]),
                 peerPks |-> s.save.peerPks,
                 allVss |-> MapPut(<<>>, me, VssCommitments(poly)),
                 err |-> "", blame |-> ""]
        acc == KeygenRound3Loop(s, me, order, acc0)
        mutated == [s EXCEPT !.save.peerPks = acc.peerPks]
        XiPoint == ScalarBaseMult(acc.xi)
        proof == SchnorrProve(acc.xi, XiPoint, rnd[me].nonce)
        s1 == [mutated EXCEPT !.save.Xi = acc.xi, !.save.XiPoint = XiPoint,
                              !.save.PublicKey = acc.X, !.temp.allVss = acc.allVss]
        newState == [s1 EXCEPT !.round = 3, !.recv = <<>>]
    IN  IF acc.err # "" THEN RetNil(mutated, acc.err, acc.blame)
        ELSE RetNew(s1, newState,
                    << Msg(me, Bcast, "KeyGenRound3_Proof", 3, <<XiPoint, proof.R, proof.S>>) >>)

\* The sum over all parties' VSS polynomials of sum_m jIdx^m * A_{k,m}.
RECURSIVE KeygenExpectedShare(_, _, _)
KeygenExpectedShare(allVss, ids, jIdx) ==
    IF ids = {} THEN 0
    ELSE LET k == CHOOSE x \in ids : TRUE
         IN  PointAdd(VssEval(allVss[k], jIdx, thr + 1),
                      KeygenExpectedShare(allVss, ids \ {k}, jIdx))

\* One iteration of the loop of round 4, for sender id; "" when it passes.
KeygenRound4Peer(s, id) ==
    LET payload == s.recv[id][1].payload
        Xj == payload[1]
        proof == [R |-> payload[2], S |-> payload[3]]
        jIdx == IdNum(id)
    IN  IF Len(payload) # 3
          THEN [err |-> "failed to unmarshal round 3 payload", blame |-> ""]
        ELSE IF ~SchnorrVerify(proof, Xj)
          THEN [err |-> "schnorr proof verification failed", blame |-> id]
        ELSE IF Xj # KeygenExpectedShare(s.temp.allVss, DOMAIN s.temp.allVss, jIdx)
          THEN [err |-> "public key share mismatch", blame |-> id]
        ELSE [err |-> "", blame |-> ""]

RECURSIVE KeygenRound4Loop(_, _)
KeygenRound4Loop(s, order) ==
    IF order = <<>> THEN [err |-> "", blame |-> ""]
    ELSE LET r == KeygenRound4Peer(s, Head(order))
         IN  IF r.err # "" THEN r ELSE KeygenRound4Loop(s, Tail(order))

\* Round 4: verify every peer's proof and public share; on success return a
\* finishedState holding saveData.
KeygenRound4(s, order) ==
    LET r == KeygenRound4Loop(s, order)
        fin == [s EXCEPT !.kind = "finished", !.round = 0, !.recv = <<>>]
    IN  IF r.err # "" THEN RetNil(s, r.err, r.blame)
        ELSE RetNew(s, fin, <<>>)

\* params.OneRoundKeyGen: the session runs the one-round (direct) DKG.
OneRoundKeyGen == proto = "keygen1"

\* round1Direct: polynomial and VSS commitments as in round 1; broadcasts
\* Paillier N || VSS without a commitment and sends each peer its share,
\* evaluated at the peer's 1-based list position; stays in round 1.
KeygenRound1Direct(s, me) ==
    LET poly == rnd[me].poly
        vss == VssCommitments(poly)
        s1 == [s EXCEPT !.temp.vss = vss, !.temp.poly = poly,
                        !.save.paillierN = rnd[me].paillierN]
        peerIdx == SelectSeq([i \in 1..Len(parties) |-> i], LAMBDA i : parties[i] # me)
        shares == [n \in 1..Len(peerIdx) |->
                     Msg(me, parties[peerIdx[n]], "KeyGen1Round_Direct_Share", 1,
                         <<Evaluate(poly, peerIdx[n])>>)]
    IN  RetSame(s1, << Msg(me, Bcast, "KeyGen1Round_Direct_Broadcast", 1,
                           <<rnd[me].paillierN>> \o vss) >> \o shares)

\* One iteration of the loop of round2Direct over receivedMsgs, for sender
\* id; acc carries xi, X, PeerPaillierPks and the error that ended the loop.
KeygenRound2DirectPeer(s, me, id, acc) ==
    LET bcs == SelectSeq(s.recv[id], LAMBDA m : m.type = "KeyGen1Round_Direct_Broadcast")
        shs == SelectSeq(s.recv[id], LAMBDA m : m.type = "KeyGen1Round_Direct_Share")
        data == bcs[Len(bcs)].payload
        stored == [acc EXCEPT !.peerPks = MapPut(acc.peerPks, id, data[1])]
        vssPoly == Tail(data)
        share == BytesToInt(shs[Len(shs)].payload)
    IN  IF bcs = <<>> \/ shs = <<>>
          THEN [acc EXCEPT !.err = "missing messages from party"]
        ELSE IF Len(data) < 1
          THEN [acc EXCEPT !.err = "data too short for Paillier N"]
        ELSE IF Len(vssPoly) # thr + 1
          THEN [stored EXCEPT !.err = "vss data length mismatch"]
        ELSE IF ScalarBaseMult(share) # VssEval(vssPoly, IdNum(me), thr + 1)
          THEN [stored EXCEPT !.err = "vss share verification failed", !.blame = id]
        ELSE [stored EXCEPT !.xi = ModQ(acc.xi + share),
                            !.X = PointAdd(acc.X, vssPoly[1])]

RECURSIVE KeygenRound2DirectLoop(_, _, _, _)
KeygenRound2DirectLoop(s, me, order, acc) ==
    IF order = <<>> \/ acc.err # "" THEN acc
    ELSE KeygenRound2DirectLoop(s, me, Tail(order),
                                KeygenRound2DirectPeer(s, me, Head(order), acc))

\* round2Direct: x_i = f_i(myIdx) + the verified shares, X = sum of the
\* A_{j,0}; returns the finished state at once and sends nothing.  myIdx is
\* the party's ID parsed as a decimal number.
KeygenRound2Direct(s, me, order) ==
    LET acc == KeygenRound2DirectLoop(s, me, order,
                   [xi |-> Evaluate(s.temp.poly, IdNum(me)),
                    X |-> ScalarBaseMult(s.temp.poly[1]),
                    peerPks |-> <<>>, err |-> "", blame |-> ""])
        mutated == [s EXCEPT !.save.peerPks = acc.peerPks]
        s1 == [mutated EXCEPT !.save.Xi = acc.xi, !.save.XiPoint = ScalarBaseMult(acc.xi),
                              !.save.PublicKey = acc.X]
    IN  IF acc.err # "" THEN RetNil(mutated, acc.err, acc.blame)
        ELSE RetNew(s1, [s1 EXCEPT !.kind = "finished", !.round = 0, !.recv = <<>>], <<>>)

KeygenNextRound(s, me, order) ==
    IF OneRoundKeyGen
      THEN CASE s.round = 1 -> KeygenRound2Direct(s, me, order)
             [] OTHER -> RetNil(s, "unknown round in direct mode", "")
    ELSE CASE s.round = 1 -> KeygenRound2(s, me)
           [] s.round = 2 -> KeygenRound3(s, me, order)
           [] s.round = 3 -> KeygenRound4(s, order)
           [] OTHER -> RetNil(s, "unknown round", "")

KeygenExpectedCount(round) ==
    IF OneRoundKeyGen
      THEN CASE round = 1 -> 2
             [] OTHER -> 0
    ELSE CASE round = 1 -> 1
           [] round = 2 -> 2
           [] round = 3 -> 1
           [] OTHER -> 0

\* state.Update of the keygen package after the round check: the sender
\* check, the duplicate check, the store and the gate; order is the
\* iteration order of the receivedMsgs map in the round body.
KeygenStateReceive(s, me, msg, order) ==
    IF msg.from = me
      THEN RetNil(s, "", "")
    ELSE IF \E i \in 1..Len(MapGet(s.recv, msg.from)) : s.recv[msg.from][i].type = msg.type
      THEN RetNil(s, "duplicate message type", "")
    ELSE
      LET s1 == [s EXCEPT !.recv = MapPut(s.recv, msg.from,
                                          Append(MapGet(s.recv, msg.from), msg))]
      IN  IF Cardinality(DOMAIN s1.recv) < Len(parties) - 1
            THEN RetSame(s1, <<>>)
          ELSE IF \E id \in DOMAIN s1.recv : Len(s1.recv[id]) < KeygenExpectedCount(s1.round)
            THEN RetSame(s1, <<>>)
          ELSE KeygenNextRound(s1, me, order)

\* A variant of state.Update that lacks the round check.
KeygenStateUpdateAnyRound(s, me, msg, order) == KeygenStateReceive(s, me, msg, order)

\* state.Update of the keygen package: a message of another round than the
\* current one is an error.
KeygenStateUpdate(s, me, msg, order) ==
    IF msg.round # s.round
      THEN RetNil(s, "received message for unexpected round", "")
    ELSE KeygenStateReceive(s, me, msg, order)

\* A variant of finishedState.Update that hands back the finished state
\* together with the error.
KeygenFinishedUpdateKeepsState(s) ==
    [nk |-> "same", next |-> s, out |-> <<>>, err |-> "ErrProtocolDone", blame |-> "",
     self |-> s]

\* finishedState.Update of the keygen package.
KeygenFinishedUpdate(s) == RetNil(s, "ErrProtocolDone", "")

KeygenUpdate(s, me, msg, order) ==
    IF s.kind = "finished" THEN KeygenFinishedUpdate(s)
    ELSE KeygenStateUpdate(s, me, msg, order)

(***************************************************************************)
(* Paillier encryption and ECDSA verification.                             *)
(*                                                                         *)
(* A ciphertext under the key with modulus n is the pair <<n, m>> of the   *)
(* modulus and the plaintext it decrypts to; the homomorphic operations    *)
(* act on the plaintext mod n.                                             *)
(***************************************************************************)
PaillierEncrypt(n, m) == <<n, m % n>>
PaillierMul(n, c, k) == <<n, (c[2] * k) % n>>
PaillierAdd(n, c1, c2) == <<n, (c1[2] + c2[2]) % n>>

\* Decrypt rejects a ciphertext outside [0, n^2).
PaillierInRange(c) == c[1] >= 0 /\ c[2] >= 0

\* A ciphertext made for another key decrypts to an unrelated residue.
PaillierDecrypt(n, c) == IF c[1] = n THEN c[2] % n ELSE (c[1] + c[2]) % n

\* The digest of a pre-signing instance: msgToSign is nil.
NoDigest == -1

\* new(big.Int).SetBytes(msgToSign): a nil digest reads as 0.
DigestInt(m) == IF m = NoDigest THEN 0 ELSE m

\* ecdsa.Signature.Verify over the model group: r, s in [1, Q-1] and the
\* x-coordinate of (m/s)*G + (r/s)*X equals r.
EcdsaVerify(m, r, sv, X) ==
    /\ r \in 1..(Q-1)
    /\ sv \in 1..(Q-1)
    /\ LET w == ModInverse(sv)
           P == PointAdd(ScalarBaseMult(ModQ(DigestInt(m) * w)), ScalarMult(X, ModQ(r * w)))
       IN  P # 0 /\ P = r

(***************************************************************************)
(* Signing: state machine and round bodies.                                *)
(***************************************************************************)
\* The state object sign.NewStateMachine allocates for key data kd.
SignNewState(kd, m) ==
    [kind |-> "state", round |-> 1, recv |-> <<>>,
     temp |-> [ki |-> -1, gammai |-> -1, wi |-> -1, encK |-> <<>>, Gamma |-> -1,
               peerEncK |-> <<>>, peerGamma |-> <<>>, betas |-> <<>>, nus |-> <<>>,
               delta_i |-> -1, sigma_i |-> -1, r |-> -1, si |-> -1, R |-> -1],
     save |-> kd, msgToSign |-> m,
     sig |-> [R |-> -1, S |-> -1]]

RECURSIVE ProdSeq(_)
ProdSeq(s) == IF s = <<>> THEN 1 ELSE ModQ(Head(s) * ProdSeq(Tail(s)))

\* calcLagrangeCoeffs: the coefficient at 0 of the party at 1-based list
\* position myX among the positions 1..n of the list.
LagrangeAtZero(n, myX) ==
    LET others == SelectSeq([i \in 1..n |-> i], LAMBDA x : x # myX)
        num == ProdSeq(others)
        den == ProdSeq([i \in 1..Len(others) |-> ModQ(others[i] - myX)])
    IN  ModQ(num * ModInverse(den))

calcLagrangeCoeffs(me) == LagrangeAtZero(Len(parties), IndexOf(parties, me))

\* Round 1: k_i, gamma_i, w_i = lambda_i * x_i, Enc(k_i), Gamma_i = gamma_i*G.
SignRound1(s, me) ==
    LET ki == rnd[me].k
        gammai == rnd[me].gamma
        wi == ModQ(s.save.Xi * calcLagrangeCoeffs(me))
        encK == PaillierEncrypt(s.save.paillierN, ki)
        Gamma == ScalarBaseMult(gammai)
        s1 == [s EXCEPT !.temp.ki = ki, !.temp.gammai = gammai, !.temp.wi = wi,
                        !.temp.encK = encK, !.temp.Gamma = Gamma]
    IN  RetSame(s1, << Msg(me, Bcast, "SignRound1", 1, encK \o <<Gamma>>) >>)

\* Round 2: read Enc(k_j) and Gamma_j of every sender, answer every listed
\* peer with the two MtA ciphertexts.
SignRound2(s, me) ==
    LET ids == DOMAIN s.recv
        bad == { id \in ids : Len(s.recv[id][1].payload) # 3 }
        peerEncK == [id \in ids |-> SubSeq(s.recv[id][1].payload, 1, 2)]
        peerGamma == [id \in ids |-> s.recv[id][1].payload[3]]
        s1 == [s EXCEPT !.temp.peerEncK = peerEncK, !.temp.peerGamma = peerGamma]
        peers == Peers(parties, me)
        noKey == { i \in 1..Len(peers) : peers[i] \notin DOMAIN s.save.peerPks }
        noEnc == { i \in 1..Len(peers) : peers[i] \notin ids }
        first(S) == CHOOSE i \in S : \A j \in S : i <= j
        mta(pid) ==
            LET nj == s.save.peerPks[pid]
                cDelta == PaillierAdd(nj, PaillierMul(nj, peerEncK[pid], s.temp.gammai),
                                      PaillierEncrypt(nj, rnd[me].beta))
                cSigma == PaillierAdd(nj, PaillierMul(nj, peerEncK[pid], s.temp.wi),
                                      PaillierEncrypt(nj, rnd[me].nu))
            IN  Msg(me, pid, "SignRound2_MtA", 2, cDelta \o cSigma)
        s2 == [s1 EXCEPT !.temp.betas = [id \in SeqToSet(peers) |-> rnd[me].beta],
                         !.temp.nus = [id \in SeqToSet(peers) |-> rnd[me].nu]]
        newState == [s2 EXCEPT !.round = 2, !.recv = <<>>]
    IN  IF bad # {} THEN RetNil(s, "failed to unmarshal round 1 payload", "")
        ELSE IF noKey # {} /\ (noEnc = {} \/ first(noKey) <= first(noEnc))
          THEN RetNil(s1, "missing paillier key", "")
        ELSE IF noEnc # {}
          THEN RetNil(s1, "panic: nil pointer dereference", "")
        ELSE RetNew(s2, newState, [i \in 1..Len(peers) |-> mta(peers[i])])

\* Round 3: decrypt alpha and mu of every sender,
\* delta_i = k_i*gamma_i + sum(alpha - beta), sigma_i = k_i*w_i + sum(mu - nu).
SignRound3(s, me) ==
    LET ids == DOMAIN s.recv
        n == s.save.paillierN
        pay(id) == s.recv[id][1].payload
        bad == { id \in ids : Len(pay(id)) # 4 }
        undec == { id \in ids : ~PaillierInRange(SubSeq(pay(id), 1, 2))
                                  \/ ~PaillierInRange(SubSeq(pay(id), 3, 4)) }
        alpha(id) == PaillierDecrypt(n, SubSeq(pay(id), 1, 2))
        mu(id) == PaillierDecrypt(n, SubSeq(pay(id), 3, 4))
        order == CHOOSE o \in SetToSeqs(ids) : TRUE
        dterms == [i \in 1..Len(order) |-> alpha(order[i]) - s.temp.betas[order[i]]]
        sterms == [i \in 1..Len(order) |-> mu(order[i]) - s.temp.nus[order[i]]]
        delta_i == ModQ(s.temp.ki * s.temp.gammai + SumSeq(dterms))
        sigma_i == ModQ(s.temp.ki * s.temp.wi + SumSeq(sterms))
        s1 == [s EXCEPT !.temp.delta_i = delta_i, !.temp.sigma_i = sigma_i]
        newState == [s1 EXCEPT !.round = 3, !.recv = <<>>]
    IN  IF bad # {} THEN RetNil(s, "failed to unmarshal round 2 payload", "")
        ELSE IF undec # {} THEN RetNil(s, "failed to decrypt alpha", "")
        ELSE IF ~(ids \subseteq DOMAIN s.temp.betas)
          THEN RetNil(s, "panic: nil pointer dereference", "")
        ELSE RetNew(s1, newState, << Msg(me, Bcast, "SignRound3_Delta", 3, <<delta_i>>) >>)

\* Round 4: delta = sum of delta_j, Gamma = sum of Gamma_j,
\* R = delta^-1 * Gamma, r = R.x mod q, s_i = m*k_i + r*sigma_i.
\* A variant of round 4 that lacks the checks of delta and r.
SignRound4Unchecked(s, me) ==
    LET ids == DOMAIN s.recv
        bad == { id \in ids : Len(s.recv[id][1].payload) # 1 }
        order == CHOOSE o \in SetToSeqs(ids) : TRUE
        delta == ModQ(s.temp.delta_i
                      + SumSeq([i \in 1..Len(order) |-> s.recv[order[i]][1].payload[1]]))
        gorder == CHOOSE o \in SetToSeqs(DOMAIN s.temp.peerGamma) : TRUE
        Gamma == ModQ(s.temp.Gamma
                      + SumSeq([i \in 1..Len(gorder) |-> s.temp.peerGamma[gorder[i]]]))
        R == ScalarMult(Gamma, ModInverse(delta))
        r == ModQ(R)
        si == ModQ(DigestInt(s.msgToSign) * s.temp.ki + r * s.temp.sigma_i)
        s1 == [s EXCEPT !.temp.r = r, !.temp.si = si, !.temp.R = R]
        newState == [s1 EXCEPT !.round = 4, !.recv = <<>>]
    IN  IF bad # {} THEN RetNil(s, "failed to unmarshal round 3 payload", "")
        ELSE RetNew(s1, newState, << Msg(me, Bcast, "SignRound4_Si", 4, <<si>>) >>)

SignRound4(s, me) ==
    LET ids == DOMAIN s.recv
        bad == { id \in ids : Len(s.recv[id][1].payload) # 1 }
        order == CHOOSE o \in SetToSeqs(ids) : TRUE
        delta == ModQ(s.temp.delta_i
                      + SumSeq([i \in 1..Len(order) |-> s.recv[order[i]][1].payload[1]]))
        gorder == CHOOSE o \in SetToSeqs(DOMAIN s.temp.peerGamma) : TRUE
        Gamma == ModQ(s.temp.Gamma
                      + SumSeq([i \in 1..Len(gorder) |-> s.temp.peerGamma[gorder[i]]]))
        deltaInv == ModInverse(delta)
        R == ScalarMult(Gamma, deltaInv)
        r == ModQ(R)
        si == ModQ(DigestInt(s.msgToSign) * s.temp.ki + r * s.temp.sigma_i)
        s1 == [s EXCEPT !.temp.r = r, !.temp.si = si, !.temp.R = R]
        newState == [s1 EXCEPT !.round = 4, !.recv = <<>>]
    IN  IF bad # {} THEN RetNil(s, "failed to unmarshal round 3 payload", "")
        ELSE IF deltaInv = -1 THEN RetNil(s, "delta is not invertible", "")
        ELSE IF r = 0 THEN RetNil(s, "calculated r is 0, retry signing", "")
        ELSE RetNew(s1, newState, << Msg(me, Bcast, "SignRound4_Si", 4, <<si>>) >>)

\* The aggregate of round 5: s = s_i + sum of the peers' s_j.
SignFinalS(s) ==
    LET order == CHOOSE o \in SetToSeqs(DOMAIN s.recv) : TRUE
    IN  ModQ(s.temp.si + SumSeq([i \in 1..Len(order) |-> s.recv[order[i]][1].payload[1]]))

\* A variant of round 5 that lacks the verification step.
SignRound5NoVerify(s) ==
    LET bad == { id \in DOMAIN s.recv : Len(s.recv[id][1].payload) # 1 }
        fin == [s EXCEPT !.kind = "finished", !.round = 0, !.recv = <<>>,
                         !.sig = [R |-> s.temp.r, S |-> SignFinalS(s)]]
    IN  IF bad # {} THEN RetNil(s, "failed to unmarshal round 4 payload", "")
        ELSE RetNew(s, fin, <<>>)

\* Round 5: aggregate s, verify (r, s) against the public key of the key
\* data, and finish only when the signature verifies.
SignRound5(s) ==
    LET bad == { id \in DOMAIN s.recv : Len(s.recv[id][1].payload) # 1 }
        fin == [s EXCEPT !.kind = "finished", !.round = 0, !.recv = <<>>,
                         !.sig = [R |-> s.temp.r, S |-> SignFinalS(s)]]
    IN  IF bad # {} THEN RetNil(s, "failed to unmarshal round 4 payload", "")
        ELSE IF ~EcdsaVerify(s.msgToSign, s.temp.r, SignFinalS(s), s.save.PublicKey)
          THEN RetNil(s, "signature verification failed", "")
        ELSE RetNew(s, fin, <<>>)

SignNextRound(s, me) ==
    CASE s.round = 1 -> SignRound2(s, me)
      [] s.round = 2 -> SignRound3(s, me)
      [] s.round = 3 -> SignRound4(s, me)
      [] s.round = 4 -> SignRound5(s)
      [] OTHER -> RetNil(s, "unknown round", "")

\* state.Update of the sign package from the store on: the message is
\* appended to the buffer of its sender and the round body runs once every
\* buffer holds the one message a round expects per peer.
SignStateStore(s, me, msg) ==
    LET s1 == [s EXCEPT !.recv = MapPut(s.recv, msg.from,
                                        Append(MapGet(s.recv, msg.from), msg))]
    IN  IF Cardinality(DOMAIN s1.recv) < Len(parties) - 1
          THEN RetSame(s1, <<>>)
        ELSE IF \E id \in DOMAIN s1.recv : Len(s1.recv[id]) < 1
          THEN RetSame(s1, <<>>)
        ELSE SignNextRound(s1, me)

\* A variant of state.Update that lacks the duplicate check.
SignStateUpdateNoDuplicateCheck(s, me, msg) ==
    IF msg.round # s.round
      THEN RetNil(s, "received message for unexpected round", "")
    ELSE IF msg.from = me
      THEN RetNil(s, "", "")
    ELSE SignStateStore(s, me, msg)

\* state.Update of the sign package.
SignStateUpdate(s, me, msg) ==
    IF msg.round # s.round
      THEN RetNil(s, "received message for unexpected round", "")
    ELSE IF msg.from = me
      THEN RetNil(s, "", "")
    ELSE IF \E i \in 1..Len(MapGet(s.recv, msg.from)) : s.recv[msg.from][i].type = msg.type
      THEN RetNil(s, "duplicate message type", "")
    ELSE SignStateStore(s, me, msg)

\* finishedState.Update of the sign package.
SignFinishedUpdate(s) == RetNil(s, "ErrProtocolDone", "")

SignUpdate(s, me, msg) ==
    IF s.kind = "finished" THEN SignFinishedUpdate(s)
    ELSE SignStateUpdate(s, me, msg)

(***************************************************************************)
(* Key refresh: state machine and round bodies.                            *)
\* The state object NewOnlineStateMachine allocates: round 4, the digest set.
SignOnlineNewState(kd, m) == [SignNewState(kd, m) EXCEPT !.round = 4]

\* The PreSignature {R, Rx, Ki, SigmaI} the offline phase leaves with party
\* id: R = k^-1 * G for k = sum of the k_i, r its x-coordinate, and sigma_i
\* an additive share of k * x.
PreSignatureOf(id) ==
    LET k == ModQ(SumSeq([n \in 1..Len(parties) |-> rnd[parties[n]].k]))
        Rx == ScalarBaseMult(ModInverse(k))
        n == IndexOf(parties, id)
        mask == IF n = 1 THEN 1 ELSE IF n = Len(parties) THEN Q - 1 ELSE 0
    IN  [R |-> ModQ(Rx), Rx |-> Rx, Ki |-> rnd[id].k,
         SigmaI |-> ModQ(rnd[id].k * key.poly[1] + mask)]

\* A variant of roundOnline1 that broadcasts nothing.
roundOnline1Silent(s, me, preSignature) ==
    LET si == ModQ(DigestInt(s.msgToSign) * preSignature.Ki
                   + preSignature.R * preSignature.SigmaI)
        s1 == [s EXCEPT !.temp.r = preSignature.R, !.temp.R = preSignature.Rx,
                        !.temp.si = si]
    IN  RetSame(s1, <<>>)

\* roundOnline1: r and R from the PreSignature, s_i = m * k_i + r * sigma_i,
\* one broadcast of s_i; the instance itself is returned.
roundOnline1(s, me, preSignature) ==
    LET si == ModQ(DigestInt(s.msgToSign) * preSignature.Ki
                   + preSignature.R * preSignature.SigmaI)
        s1 == [s EXCEPT !.temp.r = preSignature.R, !.temp.R = preSignature.Rx,
                        !.temp.si = si]
    IN  RetSame(s1, << Msg(me, Bcast, "SignRound4", 4, <<si>>) >>)

(***************************************************************************)
\* A variant of NewStateMachine that leaves the public key of the new key
\* data unset.
RefreshNewStateNoPublicKey(kd) ==
    [kind |-> "state", round |-> 1, recv |-> <<>>,
     temp |-> [salt |-> -1, vss |-> <<>>, poly |-> <<>>, peerComm |-> <<>>, allVss |-> <<>>],
     save |-> [paillierN |-> -1, peerPks |-> <<>>, Xi |-> -1, XiPoint |-> -1,
               PublicKey |-> -1],
     old |-> kd]

\* The state object refresh.NewStateMachine allocates: the public key of
\* the old key data is copied into saveData.
RefreshNewState(kd) ==
    [kind |-> "state", round |-> 1, recv |-> <<>>,
     temp |-> [salt |-> -1, vss |-> <<>>, poly |-> <<>>, peerComm |-> <<>>, allVss |-> <<>>],
     save |-> [paillierN |-> -1, peerPks |-> <<>>, Xi |-> -1, XiPoint |-> -1,
               PublicKey |-> kd.PublicKey],
     old |-> kd]

\* json.Marshal of the CommitData of refresh: Paillier N, then the VSS list.
RefreshCommitData(n, vss) == <<n>> \o vss

\* Round 1: fresh Paillier key, polynomial with constant term 0, commitment.
RefreshRound1(s, me) ==
    LET poly == <<0>> \o Tail(rnd[me].poly)
        vss == VssCommitments(poly)
        comm == CommitmentNew(rnd[me].salt, RefreshCommitData(rnd[me].paillierN, vss))
        s1 == [s EXCEPT !.temp.salt = comm.D, !.temp.vss = vss, !.temp.poly = poly,
                        !.save.paillierN = rnd[me].paillierN]
    IN  RetSame(s1, << Msg(me, Bcast, "RefreshRound1", 1, comm.C) >>)

\* A variant of round 2 that keeps the received-message buffer.
RefreshRound2KeepsBuffer(s, me) ==
    LET peerComm == [id \in DOMAIN s.recv |-> s.recv[id][1].payload]
        payload == <<s.temp.salt>> \o RefreshCommitData(s.save.paillierN, s.temp.vss)
        peerIdx == SelectSeq([i \in 1..Len(parties) |-> i], LAMBDA i : parties[i] # me)
        shares == [n \in 1..Len(peerIdx) |->
                     Msg(me, parties[peerIdx[n]], "RefreshRound2_Share", 2,
                         <<Evaluate(s.temp.poly, peerIdx[n])>>)]
        s1 == [s EXCEPT !.temp.peerComm = peerComm, !.round = 2]
    IN  RetSame(s1, << Msg(me, Bcast, "RefreshRound2_Decommit", 2, payload) >> \o shares)

\* A variant of round 2 that sets the round number to 3.
RefreshRound2SkipsRound(s, me) ==
    LET peerComm == [id \in DOMAIN s.recv |-> s.recv[id][1].payload]
        payload == <<s.temp.salt>> \o RefreshCommitData(s.save.paillierN, s.temp.vss)
        peerIdx == SelectSeq([i \in 1..Len(parties) |-> i], LAMBDA i : parties[i] # me)
        shares == [n \in 1..Len(peerIdx) |->
                     Msg(me, parties[peerIdx[n]], "RefreshRound2_Share", 2,
                         <<Evaluate(s.temp.poly, peerIdx[n])>>)]
        s1 == [s EXCEPT !.temp.peerComm = peerComm, !.round = 3, !.recv = <<>>]
    IN  RetSame(s1, << Msg(me, Bcast, "RefreshRound2_Decommit", 2, payload) >> \o shares)

\* Round 2: decommit and send the shares; the instance itself moves to
\* round 2 and is returned.
RefreshRound2(s, me) ==
    LET peerComm == [id \in DOMAIN s.recv |-> s.recv[id][1].payload]
        payload == <<s.temp.salt>> \o RefreshCommitData(s.save.paillierN, s.temp.vss)
        peerIdx == SelectSeq([i \in 1..Len(parties) |-> i], LAMBDA i : parties[i] # me)
        shares == [n \in 1..Len(peerIdx) |->
                     Msg(me, parties[peerIdx[n]], "RefreshRound2_Share", 2,
                         <<Evaluate(s.temp.poly, peerIdx[n])>>)]
        s1 == [s EXCEPT !.temp.peerComm = peerComm, !.round = 2, !.recv = <<>>]
    IN  RetSame(s1, << Msg(me, Bcast, "RefreshRound2_Decommit", 2, payload) >> \o shares)

\* One iteration of the loop of round 3 of refresh, for sender id.
RefreshRound3Peer(s, me, id, acc) ==
    LET msgs == s.recv[id]
        decs == SelectSeq(msgs, LAMBDA m : m.type = "RefreshRound2_Decommit")
        shs == SelectSeq(msgs, LAMBDA m : m.type = "RefreshRound2_Share")
        payload == decs[Len(decs)].payload
        salt == payload[1]
        data == Tail(payload)
        vss == Tail(data)
        share == BytesToInt(shs[Len(shs)].payload)
        stored == [acc EXCEPT !.peerPks = MapPut(acc.peerPks, id, data[1]),
                              !.allVss = MapPut(acc.allVss, id, vss)]
    IN  IF decs = <<>> \/ shs = <<>>
          THEN [acc EXCEPT !.err = "missing messages from party"]
        ELSE IF Len(payload) < 1
          THEN [acc EXCEPT !.err = "invalid decommitment"]
        ELSE IF ~CommitmentVerify(MapGet(s.temp.peerComm, id), salt, data)
          THEN [acc EXCEPT !.err = "commitment verification failed"]
        ELSE IF Len(data) < 1
          THEN [acc EXCEPT !.err = "failed to unmarshal commit data"]
        ELSE IF Len(vss) = 0
          THEN [stored EXCEPT !.err = "panic: nil pointer dereference"]
        ELSE IF ScalarBaseMult(share) # VssEval(vss, IdNum(me), Len(vss))
          THEN [stored EXCEPT !.err = "vss share verification failed"]
        ELSE [stored EXCEPT !.xi = ModQ(acc.xi + share)]

RECURSIVE RefreshRound3Loop(_, _, _, _)
RefreshRound3Loop(s, me, order, acc) ==
    IF order = <<>> \/ acc.err # "" THEN acc
    ELSE RefreshRound3Loop(s, me, Tail(order), RefreshRound3Peer(s, me, Head(order), acc))

\* Round 3: x_i' = x_i + h_i(myIdx) + sum of the shares, with myIdx the ID
\* parsed as a decimal number; Schnorr proof of x_i'.  The instance itself
\* moves to round 3.
RefreshRound3(s, me, order) ==
    LET acc0 == [xi |-> Evaluate(s.temp.poly, IdNum(me)),
                 peerPks |-> s.save.peerPks,
                 allVss |-> MapPut(<<>>, me, VssCommitments(s.temp.poly)),
                 err |-> "", blame |-> ""]
        acc == RefreshRound3Loop(s, me, order, acc0)
        mutated == [s EXCEPT !.save.peerPks = acc.peerPks]
        xiNew == ModQ(s.old.Xi + acc.xi)
        XiPoint == ScalarBaseMult(xiNew)
        proof == SchnorrProve(xiNew, XiPoint, rnd[me].nonce)
        s1 == [mutated EXCEPT !.temp.allVss = acc.allVss, !.save.Xi = xiNew,
                              !.save.XiPoint = XiPoint, !.round = 3, !.recv = <<>>]
    IN  IF acc.err # "" THEN RetNil(mutated, acc.err, "")
        ELSE RetSame(s1, << Msg(me, Bcast, "RefreshRound3", 3, <<XiPoint, proof.R, proof.S>>) >>)

\* sum_j lambda_j * X_j over the 1-based positions of list, X_j = allXi[list[j]].
LagrangeAggregate(list, allXi) ==
    ModQ(SumSeq([j \in 1..Len(list) |->
                   ScalarMult(allXi[list[j]], LagrangeAtZero(Len(list), j))]))

\* Round 4: verify the peers' proofs, check that the Lagrange aggregate of
\* the new public shares is the old public key, finish.
RefreshRound4(s, me) ==
    LET ids == DOMAIN s.recv
        pay(id) == s.recv[id][1].payload
        bad == { id \in ids : Len(pay(id)) # 3 }
        unproved == { id \in ids :
                        ~SchnorrVerify([R |-> pay(id)[2], S |-> pay(id)[3]], pay(id)[1]) }
        allXi == [id \in ids \cup {me} |-> IF id = me THEN s.save.XiPoint ELSE pay(id)[1]]
        fin == [s EXCEPT !.kind = "finished", !.round = 0, !.recv = <<>>]
    IN  IF bad # {} THEN RetNil(s, "failed to unmarshal round 3 payload", "")
        ELSE IF unproved # {} THEN RetNil(s, "schnorr proof failed", "")
        ELSE IF ~(SeqToSet(parties) \subseteq DOMAIN allXi)
          THEN RetNil(s, "panic: nil pointer dereference", "")
        ELSE IF LagrangeAggregate(parties, allXi) # s.old.PublicKey
          THEN RetNil(s, "global public key changed! refresh failed", "")
        ELSE RetNew(s, fin, <<>>)

RefreshNextRound(s, me, order) ==
    CASE s.round = 1 -> RefreshRound2(s, me)
      [] s.round = 2 -> RefreshRound3(s, me, order)
      [] s.round = 3 -> RefreshRound4(s, me)
      [] OTHER -> RetNil(s, "unknown round", "")

RefreshExpectedCount(round) ==
    CASE round = 1 -> 1
      [] round = 2 -> 2
      [] round = 3 -> 1
      [] round = 4 -> 1
      [] OTHER -> 0

\* state.Update of the refresh package.
RefreshStateUpdate(s, me, msg, order) ==
    IF msg.round # s.round
      THEN RetNil(s, "received message for unexpected round", "")
    ELSE IF msg.from = me
      THEN RetNil(s, "", "")
    ELSE IF \E i \in 1..Len(MapGet(s.recv, msg.from)) : s.recv[msg.from][i].type = msg.type
      THEN RetNil(s, "duplicate message type", "")
    ELSE
      LET s1 == [s EXCEPT !.recv = MapPut(s.recv, msg.from,
                                          Append(MapGet(s.recv, msg.from), msg))]
      IN  IF Cardinality(DOMAIN s1.recv) < Len(parties) - 1
            THEN RetSame(s1, <<>>)
          ELSE IF \E id \in DOMAIN s1.recv : Len(s1.recv[id]) < RefreshExpectedCount(s1.round)
            THEN RetSame(s1, <<>>)
          ELSE RefreshNextRound(s1, me, order)

\* finishedState.Update of the refresh package.
RefreshFinishedUpdate(s) == RetNil(s, "ErrProtocolDone", "")

RefreshUpdate(s, me, msg, order) ==
    IF s.kind = "finished" THEN RefreshFinishedUpdate(s)
    ELSE RefreshStateUpdate(s, me, msg, order)

(***************************************************************************)
(* Key resharing: state machine and round bodies.                          *)
(*                                                                         *)
(* params.Parties is the new committee, key.list the old one.  A JSON      *)
(* object is the sequence of its fields, each a tag followed by its value: *)
(* 1 = paillier_n, 2 = vss (with its length), 3 = global_pub.              *)
(***************************************************************************)
IsOld(id) == id \in SeqToSet(key.list)
IsNew(id) == id \in SeqToSet(parties)

\* The state object reshare.NewStateMachine allocates.  saveData exists only
\* for a member of the new committee (hasSave); it starts with the public key
\* of the old key data when the party holds one.
ReshareNewState(id) ==
    [kind |-> "state", round |-> 1, recv |-> <<>>,
     temp |-> [salt |-> -1, vss |-> <<>>, poly |-> <<>>, peerComm |-> <<>>,
               hasSelfShare |-> FALSE, selfShare |-> -1],
     hasSave |-> IsNew(id),
     save |-> [paillierN |-> -1, peerPks |-> <<>>, Xi |-> -1, XiPoint |-> -1,
               PublicKey |-> IF IsNew(id) /\ IsOld(id) THEN KeyData(id).PublicKey ELSE -1],
     hasOld |-> IsOld(id),
     old |-> IF IsOld(id) THEN KeyData(id)
             ELSE [paillierN |-> -1, peerPks |-> <<>>, Xi |-> -1, XiPoint |-> -1,
                   PublicKey |-> -1]]

\* json.Marshal of a CommitData with the given fields present (omitempty).
ReshareJson(hasN, n, hasVss, vss, hasPub, pub) ==
    (IF hasN THEN <<1, n>> ELSE <<>>)
    \o (IF hasVss THEN <<2, Len(vss)>> \o vss ELSE <<>>)
    \o (IF hasPub THEN <<3, pub>> ELSE <<>>)

\* json.Unmarshal into the two-field CommitData of round 3: unknown fields
\* are skipped, a malformed object is an error.
ReshareParse(data) ==
    LET hasN == Len(data) >= 2 /\ data[1] = 1
        r1 == IF hasN THEN SubSeq(data, 3, Len(data)) ELSE data
        hasVss == Len(r1) >= 2 /\ r1[1] = 2 /\ r1[2] >= 1 /\ Len(r1) >= 2 + r1[2]
        r2 == IF hasVss THEN SubSeq(r1, 3 + r1[2], Len(r1)) ELSE r1
    IN  [ok |-> r2 = <<>> \/ (Len(r2) = 2 /\ r2[1] = 3),
         hasN |-> hasN, n |-> IF hasN THEN data[2] ELSE -1,
         hasVss |-> hasVss, vss |-> IF hasVss THEN SubSeq(r1, 3, 2 + r1[2]) ELSE <<>>]

\* Round 1: a new member draws a Paillier key, an old member a polynomial
\* of degree Threshold with constant term x_i; the commitment is to the
\* two-field CommitData (paillier_n, vss).
ReshareRound1(s, me) ==
    LET poly == <<s.old.Xi>> \o Tail(rnd[me].poly)
        vss == VssCommitments(poly)
        data == ReshareJson(IsNew(me), rnd[me].paillierN, IsOld(me), vss, FALSE, 0)
        comm == CommitmentNew(rnd[me].salt, data)
        s1 == [s EXCEPT !.save.paillierN = IF IsNew(me) THEN rnd[me].paillierN ELSE @,
                        !.temp.poly = IF IsOld(me) THEN poly ELSE @,
                        !.temp.vss = IF IsOld(me) THEN vss ELSE @,
                        !.temp.salt = comm.D]
    IN  RetSame(s1, << Msg(me, Bcast, "ReshareRound1", 1, comm.C) >>)

\* The instance a failed constructor call returns: none.
NoInstance == [kind |-> "none"]

\* A variant of NewStateMachine that lacks the committee check: a party of
\* neither committee gets an instance that commits to an empty CommitData.
ReshareNewStateMachineUnchecked(id) ==
    IF ~IsOld(id) /\ ~IsNew(id)
      THEN RetSame([ReshareNewState(id) EXCEPT !.temp.salt = SaltOf(id)],
                   << Msg(id, Bcast, "ReshareRound1", 1,
                          CommitmentNew(SaltOf(id), <<>>).C) >>)
    ELSE ReshareRound1(ReshareNewState(id), id)

\* reshare.NewStateMachine: a party that is in neither committee is
\* rejected; otherwise the state is allocated and round 1 runs.
ReshareNewStateMachine(id) ==
    IF ~IsOld(id) /\ ~IsNew(id)
      THEN RetNil(NoInstance, "party is not in old or new committee", "")
    ELSE ReshareRound1(ReshareNewState(id), id)

\* Round 2: decommit the four-field CommitData (an old member adds the old
\* public key); an old member sends each new member the share at its
\* 1-based position in the new list and keeps its own.  The instance itself
\* moves to round 2.
ReshareRound2(s, me) ==
    LET peerComm == [id \in DOMAIN s.recv |-> s.recv[id][1].payload]
        data == ReshareJson(IsNew(me), s.save.paillierN, IsOld(me), s.temp.vss,
                            IsOld(me), s.old.PublicKey)
        peerIdx == SelectSeq([i \in 1..Len(parties) |-> i], LAMBDA i : parties[i] # me)
        shares == IF IsOld(me)
                  THEN [n \in 1..Len(peerIdx) |->
                          Msg(me, parties[peerIdx[n]], "ReshareRound2_Share", 2,
                              <<Evaluate(s.temp.poly, peerIdx[n])>>)]
                  ELSE <<>>
        s1 == [s EXCEPT !.temp.peerComm = peerComm,
                        !.temp.hasSelfShare = IsOld(me) /\ IsNew(me),
                        !.temp.selfShare = IF IsOld(me) /\ IsNew(me)
                                           THEN Evaluate(s.temp.poly, IndexOf(parties, me))
                                           ELSE @,
                        !.round = 2, !.recv = <<>>]
    IN  RetSame(s1, << Msg(me, Bcast, "ReshareRound2_Decommit", 2,
                           <<s.temp.salt>> \o data) >> \o shares)

\* The Lagrange coefficient at 0 of old-committee position idx among the
\* positions 1..n of the old committee.
ReshareLagrange(idx) == LagrangeAtZero(Len(key.list), idx)

\* One iteration of the loop of round 3 of reshare, for sender id.
ReshareRound3Peer(s, me, id, acc) ==
    LET msgs == s.recv[id]
        decs == SelectSeq(msgs, LAMBDA m : m.type = "ReshareRound2_Decommit")
        shs == SelectSeq(msgs, LAMBDA m : m.type = "ReshareRound2_Share")
        payload == decs[Len(decs)].payload
        salt == payload[1]
        data == Tail(payload)
        c == ReshareParse(data)
        stored == IF c.hasN THEN [acc EXCEPT !.peerPks = MapPut(acc.peerPks, id, c.n)]
                  ELSE acc
        share == BytesToInt(shs[Len(shs)].payload)
        myIdx == IndexOf(parties, me)
    IN  IF decs = <<>> THEN acc
        ELSE IF Len(payload) < 1
          THEN [acc EXCEPT !.err = "invalid decommitment"]
        ELSE IF ~CommitmentVerify(MapGet(s.temp.peerComm, id), salt, data)
          THEN [acc EXCEPT !.err = "commitment verification failed", !.blame = id]
        ELSE IF ~c.ok
          THEN [acc EXCEPT !.err = "failed to unmarshal commit data"]
        ELSE IF ~c.hasVss \/ shs = <<>> THEN stored
        ELSE IF ScalarBaseMult(share) # VssEval(c.vss, myIdx, Len(c.vss))
          THEN [stored EXCEPT !.err = "vss share verification failed", !.blame = id]
        ELSE IF ~IsOld(id) THEN stored
        ELSE [stored EXCEPT
                !.xi = ModQ(acc.xi + share * ReshareLagrange(IndexOf(key.list, id)))]

RECURSIVE ReshareRound3Loop(_, _, _, _)
ReshareRound3Loop(s, me, order, acc) ==
    IF order = <<>> \/ acc.err # "" THEN acc
    ELSE ReshareRound3Loop(s, me, Tail(order), ReshareRound3Peer(s, me, Head(order), acc))

\* Round 3: a party outside the new committee only moves to round 3; a new
\* member verifies decommitments and shares, interpolates its new share
\* from the old members' shares and proves it.  The instance itself moves
\* to round 3.
ReshareRound3(s, me, order) ==
    LET acc0 == [xi |-> 0, peerPks |-> s.save.peerPks, err |-> "", blame |-> ""]
        acc == ReshareRound3Loop(s, me, order, acc0)
        mutated == [s EXCEPT !.save.peerPks = acc.peerPks]
        xi == IF s.temp.hasSelfShare /\ IsOld(me)
              THEN ModQ(acc.xi + s.temp.selfShare * ReshareLagrange(IndexOf(key.list, me)))
              ELSE acc.xi
        XiPoint == ScalarBaseMult(xi)
        proof == SchnorrProve(xi, XiPoint, rnd[me].nonce)
        s1 == [mutated EXCEPT !.save.Xi = xi, !.save.XiPoint = XiPoint,
                              !.round = 3, !.recv = <<>>]
    IN  IF ~IsNew(me) THEN RetSame([s EXCEPT !.round = 3, !.recv = <<>>], <<>>)
        ELSE IF acc.err # "" THEN RetNil(mutated, acc.err, acc.blame)
        ELSE RetSame(s1, << Msg(me, Bcast, "ReshareRound3", 3, <<XiPoint, proof.R, proof.S>>) >>)

\* Round 4: a new member verifies the proofs of the new members and checks
\* that the Lagrange aggregate of the new public shares over the new
\* committee is the old public key; a party outside the new committee
\* terminates with no output.
ReshareRound4(s, me) ==
    LET ids == DOMAIN s.recv
        pay(id) == s.recv[id][1].payload
        bad == { id \in ids : Len(pay(id)) # 3 }
        unproved == { id \in ids :
                        ~SchnorrVerify([R |-> pay(id)[2], S |-> pay(id)[3]], pay(id)[1]) }
        allXi == [id \in ids \cup {me} |-> IF id = me THEN s.save.XiPoint ELSE pay(id)[1]]
        fin == [s EXCEPT !.kind = "finished", !.round = 0, !.recv = <<>>]
    IN  IF ~IsNew(me) THEN RetNew(s, fin, <<>>)
        ELSE IF bad # {} THEN RetNil(s, "failed to unmarshal round 3 payload", "")
        ELSE IF unproved # {} THEN RetNil(s, "schnorr proof verification failed", "")
        ELSE IF ~(SeqToSet(parties) \subseteq DOMAIN allXi)
          THEN RetNil(s, "panic: nil pointer dereference", "")
        ELSE IF LagrangeAggregate(parties, allXi) # s.save.PublicKey
          THEN RetNil(s, "global public key changed", "")
        ELSE RetNew(s, fin, <<>>)

ReshareNextRound(s, me, order) ==
    CASE s.round = 1 -> ReshareRound2(s, me)
      [] s.round = 2 -> ReshareRound3(s, me, order)
      [] s.round = 3 -> ReshareRound4(s, me)
      [] OTHER -> RetNil(s, "unknown round", "")

\* The readiness test of reshare's Update for the buffer recv.
ReshareReady(s, me) ==
    LET allIDs == (SeqToSet(key.list) \cup SeqToSet(parties)) \ {me}
        has(id, ty) == \E i \in 1..Len(s.recv[id]) : s.recv[id][i].type = ty
        distinctDecommits ==
            Cardinality({ id \in DOMAIN s.recv : has(id, "ReshareRound2_Decommit") })
        sharesReceived ==
            Cardinality({ id \in DOMAIN s.recv : has(id, "ReshareRound2_Share") })
        expectedShares ==
            IF IsNew(me) THEN Len(key.list) - (IF IsOld(me) THEN 1 ELSE 0) ELSE 0
    IN  CASE s.round = 1 -> Cardinality(DOMAIN s.recv) >= Cardinality(allIDs)
          [] s.round = 2 -> /\ distinctDecommits >= Cardinality(allIDs)
                            /\ (~IsNew(me) \/ sharesReceived >= expectedShares)
          [] OTHER -> Cardinality(DOMAIN s.recv) >= Len(parties) - 1

\* state.Update of the reshare package.
ReshareStateUpdate(s, me, msg, order) ==
    IF msg.round < s.round
      THEN RetSame(s, <<>>)
    ELSE IF msg.round > s.round
      THEN RetNil(s, "received message for unexpected round", "")
    ELSE IF msg.from = me
      THEN RetNil(s, "", "")
    ELSE IF \E i \in 1..Len(MapGet(s.recv, msg.from)) : s.recv[msg.from][i].type = msg.type
      THEN RetNil(s, "duplicate message type", "")
    ELSE
      LET s1 == [s EXCEPT !.recv = MapPut(s.recv, msg.from,
                                          Append(MapGet(s.recv, msg.from), msg))]
      IN  IF ~ReshareReady(s1, me) THEN RetSame(s1, <<>>)
          ELSE ReshareNextRound(s1, me, order)

\* finishedState.Update of the reshare package: returns the instance, no error.
ReshareFinishedUpdate(s) == RetSame(s, <<>>)

ReshareUpdate(s, me, msg, order) ==
    IF s.kind = "finished" THEN ReshareFinishedUpdate(s)
    ELSE ReshareStateUpdate(s, me, msg, order)

(***************************************************************************)
(* Sessions: the parameters and the random draws of one protocol run.      *)
(***************************************************************************)
KeygenSessions ==
    { ses \in [proto : {"keygen"}, parties : PartyLists, thr : 1..2,
               key : {NoKey}, msg : {0}] : ses.thr < Len(ses.parties) }

\* Keys an honest DKG over <<"1", "2", "3">> with threshold 1 can end with.
Keys3 == { [list |-> <<"1", "2", "3">>, thr |-> 1, poly |-> f] : f \in { <<2, 3>>, <<4, 1>> } }

\* Keys an honest DKG over <<"1", "2">> with threshold 1 can end with.
Keys2 == { [list |-> <<"1", "2">>, thr |-> 1, poly |-> f] : f \in { <<2, 3>>, <<4, 1>> } }

SignSessions ==
    [proto : {"sign"}, parties : { <<"1", "2">>, <<"1", "3">>, <<"1", "2", "3">> },
     thr : {1}, key : Keys3, msg : {1, 3}]

RefreshSessions ==
    [proto : {"refresh"}, parties : { <<"1", "2">> }, thr : {1}, key : Keys2, msg : {0}]
    \cup [proto : {"refresh"}, parties : { <<"1", "2", "3">> }, thr : {1}, key : Keys3, msg : {0}]

\* Old committee <<"1", "2">>, new committee <<"2", "3">>.
ReshareSessions ==
    [proto : {"reshare"}, parties : { <<"2", "3">> }, thr : {1}, key : Keys2, msg : {0}]

(***************************************************************************)
(* The callers and the network between them.                               *)
(***************************************************************************)
\* The messages of out appended to the channels from me: a broadcast goes
\* to every other member, a P2P message to its recipient.
RECURSIVE Route(_, _, _)
Route(n, me, out) ==
    IF out = <<>> THEN n
    ELSE LET m == Head(out)
             dests == IF m.to = Bcast THEN Members \ {me} ELSE {m.to}
             n1 == [ch \in DOMAIN n |->
                      IF ch[1] = me /\ ch[2] \in dests THEN Append(n[ch], m) ELSE n[ch]]
         IN  Route(n1, me, Tail(out))

\* NewBatchSignStateMachine: an empty list of messages is rejected;
\* otherwise the result is sign.NewStateMachine for the first message.
NewBatchSignStateMachine(kd, id, messages) ==
    IF Len(messages) = 0
      THEN RetNil(NoInstance, "invalid parameters", "")
    ELSE SignRound1(SignNewState(kd, messages[1]), id)

\* NewStateMachine of the session's protocol: allocate the state and run
\* round 1.
Construct(id) ==
    CASE proto = "keygen" -> KeygenRound1(KeygenNewState, id)
      [] proto = "keygen1" -> KeygenRound1Direct(KeygenNewState, id)
      [] proto = "sign" -> SignRound1(SignNewState(KeyData(id), msgToSign), id)
      [] proto = "batch" -> NewBatchSignStateMachine(KeyData(id), id, msgToSign)
      [] proto = "online" ->
            roundOnline1(SignOnlineNewState(KeyData(id), msgToSign), id, PreSignatureOf(id))
      [] proto = "refresh" -> RefreshRound1(RefreshNewState(KeyData(id)), id)
      [] proto = "reshare" -> ReshareNewStateMachine(id)

\* Update of the session's protocol.
Update(s, me, msg, order) ==
    CASE proto = "keygen" -> KeygenUpdate(s, me, msg, order)
      [] proto = "keygen1" -> KeygenUpdate(s, me, msg, order)
      [] proto = "sign" -> SignUpdate(s, me, msg)
      [] proto = "batch" -> SignUpdate(s, me, msg)
      [] proto = "online" -> SignUpdate(s, me, msg)
      [] proto = "refresh" -> RefreshUpdate(s, me, msg, order)
      [] proto = "reshare" -> ReshareUpdate(s, me, msg, order)

\* A variant of Result() that returns nil on every instance.
ResultAlwaysNil(s) == TRUE

\* Result() of an instance is nil: state.Result returns nil; finishedState
\* .Result returns the data the finished state holds, which for reshare is
\* the saveData pointer that is allocated for new-committee members only.
ResultIsNil(s) ==
    \/ s.kind # "finished"
    \/ (proto = "reshare" /\ ~s.hasSave)

RECURSIVE RouteAll(_, _, _)
RouteAll(n, ids, outs) ==
    IF ids = {} THEN n
    ELSE LET id == CHOOSE x \in ids : TRUE
         IN  RouteAll(Route(n, id, outs[id]), ids \ {id}, outs)

NoMsg == Msg("", "", "", 0, <<>>)

\* The draws of a signing session avoid the coincidences that have
\* negligible probability over the real group order: k = sum k_i and
\* gamma = sum gamma_i are invertible and m + r*x is not 0.
NonDegenerate ==
    proto \in {"sign", "online", "batch"} =>
        LET order == CHOOSE o \in SetToSeqs(Members) : TRUE
            ksum == ModQ(SumSeq([i \in 1..Len(order) |-> rnd[order[i]].k]))
            gsum == ModQ(SumSeq([i \in 1..Len(order) |-> rnd[order[i]].gamma]))
        IN  /\ ksum # 0
            /\ gsum # 0
            /\ ModQ(DigestInt(IF proto = "batch" THEN msgToSign[1] ELSE msgToSign)
                    + ModInverse(ksum) * key.poly[1]) # 0

InitOf(sessions, seeds) ==
    \E ses \in sessions :
        /\ proto = ses.proto
        /\ parties = ses.parties
        /\ thr = ses.thr
        /\ key = ses.key
        /\ msgToSign = ses.msg
        /\ rnd \in DrawProfiles(ses.thr, seeds)
        /\ NonDegenerate
        /\ sm = [id \in Members |-> Construct(id).next]
        /\ net = RouteAll([ch \in Members \X Members |-> <<>>], Members,
                          [id \in Members |-> Construct(id).out])
        /\ last = [valid |-> FALSE, honest |-> TRUE, party |-> "", msg |-> NoMsg,
                   pre |-> sm[parties[1]], ret |-> RetSame(sm[parties[1]], <<>>)]
        /\ injected = 0
        /\ duplicated = 0

\* What the caller does with the return of Update: on an error or a nil
\* next state it keeps the instance it called; otherwise it adopts the next
\* state and sends the outbound messages.
Adopt(ret) == IF ret.err = "" /\ ret.nk # "nil" THEN ret.next ELSE ret.self

\* A caller whose instances were built over one receivedMsgs map: the buffer
\* the called instance is left with shows in every other instance.
ReturnedSharedBuffer(to, msg, honest, netBefore, ret) ==
    /\ sm' = [q \in DOMAIN sm |->
                IF q = to THEN Adopt(ret) ELSE [sm[q] EXCEPT !.recv = Adopt(ret).recv]]
    /\ net' = IF ret.err = "" THEN Route(netBefore, to, ret.out) ELSE netBefore
    /\ last' = [valid |-> TRUE, honest |-> honest, party |-> to, msg |-> msg,
                pre |-> sm[to], ret |-> ret]

\* The caller's handling of the return ret of an Update on party to.
Returned(to, msg, honest, netBefore, ret) ==
    /\ sm' = [sm EXCEPT ![to] = Adopt(ret)]
    /\ net' = IF ret.err = "" THEN Route(netBefore, to, ret.out) ELSE netBefore
    /\ last' = [valid |-> TRUE, honest |-> honest, party |-> to, msg |-> msg,
                pre |-> sm[to], ret |-> ret]

\* One call of Update on the instance of party to.
Call(to, msg, honest, netBefore) ==
    \E order \in SetToSeqs((DOMAIN sm[to].recv) \cup {msg.from}) :
        Returned(to, msg, honest, netBefore, Update(sm[to], to, msg, order))

Dequeue(ch) == [net EXCEPT ![ch] = Tail(net[ch])]

\* The network hands the next message of a channel to its recipient as soon
\* as the recipient has reached the round of the message.
DeliverInRound(from, to) ==
    /\ net[<<from, to>>] # <<>>
    /\ sm[to].kind = "state"
    /\ Head(net[<<from, to>>]).round = sm[to].round
    /\ Call(to, Head(net[<<from, to>>]), TRUE, Dequeue(<<from, to>>))
    /\ UNCHANGED <<proto, parties, key, thr, msgToSign, rnd, injected, duplicated>>

\* A channel whose next message its recipient is ready for.
Deliverable(from, to) ==
    /\ net[<<from, to>>] # <<>>
    /\ sm[to].kind = "state"
    /\ Head(net[<<from, to>>]).round = sm[to].round

ChannelRank(from, to) == IndexOf(IdOrder, to) * (Len(IdOrder) + 1) + IndexOf(IdOrder, from)

\* In-round delivery in a fixed order of the channels: the ready channel of
\* the lowest rank goes first.
DeliverInOrder(from, to) ==
    /\ Deliverable(from, to)
    /\ \A f \in Members, t \in Members :
          Deliverable(f, t) => ChannelRank(from, to) <= ChannelRank(f, t)
    /\ Call(to, Head(net[<<from, to>>]), TRUE, Dequeue(<<from, to>>))
    /\ UNCHANGED <<proto, parties, key, thr, msgToSign, rnd, injected, duplicated>>

\* The network hands the next message of a channel to its recipient.
Deliver(from, to) ==
    /\ net[<<from, to>>] # <<>>
    /\ Call(to, Head(net[<<from, to>>]), TRUE, Dequeue(<<from, to>>))
    /\ UNCHANGED <<proto, parties, key, thr, msgToSign, rnd, injected, duplicated>>

InitSync ==
    InitOf(KeygenSessions \cup SignSessions \cup RefreshSessions \cup ReshareSessions, 0..1)

NextSync == \E from \in Members, to \in Members : DeliverInRound(from, to)

SpecSync == InitSync /\ [][NextSync]_vars

\* Sessions of two parties, and the three-member reshare.
SmallSessions ==
    { ses \in KeygenSessions \cup SignSessions \cup RefreshSessions : Len(ses.parties) = 2 }
    \cup ReshareSessions

\* The three-party DKG with threshold 1 of the end-to-end test.
Keygen3Sessions ==
    { ses \in KeygenSessions : ses.parties = <<"1", "2", "3">> /\ ses.thr = 1 }

InitAsync == InitOf(SmallSessions \cup Keygen3Sessions, {0})

NextAsync == \E from \in Members, to \in Members : Deliver(from, to)

SpecAsync == InitAsync /\ [][NextAsync]_vars

(***************************************************************************)
(* Messages that no honest party sent.                                     *)
(***************************************************************************)
\* The message types of a round of the session's protocol.
RoundTypes(r) ==
    CASE proto = "keygen" /\ r = 1 -> {"KeyGenRound1"}
      [] proto = "keygen" /\ r = 2 -> {"KeyGenRound2_Decommit", "KeyGenRound2_Share"}
      [] proto = "keygen" /\ r = 3 -> {"KeyGenRound3_Proof"}
      [] proto = "keygen1" /\ r = 1 ->
            {"KeyGen1Round_Direct_Broadcast", "KeyGen1Round_Direct_Share"}
      [] proto = "sign" /\ r = 1 -> {"SignRound1"}
      [] proto = "sign" /\ r = 2 -> {"SignRound2_MtA"}
      [] proto = "sign" /\ r = 3 -> {"SignRound3_Delta"}
      [] proto = "sign" /\ r = 4 -> {"SignRound4_Si"}
      [] proto = "online" /\ r = 4 -> {"SignRound4"}
      [] proto = "refresh" /\ r = 1 -> {"RefreshRound1"}
      [] proto = "refresh" /\ r = 2 -> {"RefreshRound2_Decommit", "RefreshRound2_Share"}
      [] proto = "refresh" /\ r = 3 -> {"RefreshRound3"}
      [] proto = "reshare" /\ r = 1 -> {"ReshareRound1"}
      [] proto = "reshare" /\ r = 2 -> {"ReshareRound2_Decommit", "ReshareRound2_Share"}
      [] proto = "reshare" /\ r = 3 -> {"ReshareRound3"}
      [] OTHER -> {}

\* A round-3 payload X || R || S made by a sender for a secret of its own:
\* the Schnorr proof verifies for X.
ForgedProofPayload ==
    << ScalarBaseMult(1), SchnorrProve(1, ScalarBaseMult(1), 1).R,
       SchnorrProve(1, ScalarBaseMult(1), 1).S >>

\* The payloads of a crafted message: three fields that no honest party
\* sends, and a public share with a valid proof of the sender's own secret.
JunkPayloads == { <<3, 1, 4>>, ForgedProofPayload }

\* The senders a crafted message for party to may name: the party itself,
\* its first peer and a sender outside the session.
CraftedSenders(to) ==
    {to, Outsider, CHOOSE p \in Members \ {to} : \A q \in Members \ {to} :
                       IndexOf(IdOrder, p) <= IndexOf(IdOrder, q)}

\* The round numbers a crafted message for instance s may carry: the round
\* before, the current round and the round after.
CraftedRounds(s) ==
    IF s.kind = "finished" THEN {1, 4}
    ELSE { r \in {s.round - 1, s.round, s.round + 1} : r >= 1 }

\* The environment feeds party to a message of its own making.
Inject(to) ==
    /\ injected < MaxInject
    /\ \E from \in CraftedSenders(to), r \in CraftedRounds(sm[to]), pl \in JunkPayloads :
         \E ty \in RoundTypes(r) \cup {"Junk"} :
            Call(to, Msg(from, Bcast, ty, r, pl), FALSE, net)
    /\ injected' = injected + 1
    /\ UNCHANGED <<proto, parties, key, thr, msgToSign, rnd, duplicated>>

\* The network delivers the message of the last call once more.
Redeliver ==
    /\ duplicated < MaxDup
    /\ last.valid
    /\ Call(last.party, last.msg, FALSE, net)
    /\ duplicated' = duplicated + 1
    /\ UNCHANGED <<proto, parties, key, thr, msgToSign, rnd, injected>>

Init == InitOf({ ses \in SmallSessions : ses.msg \in {0, 1} }, {0})

Next ==
    \/ \E from \in Members, to \in Members : DeliverInOrder(from, to)
    \/ \E to \in Members : Inject(to)
    \/ Redeliver

Spec == Init /\ [][Next]_vars

\* The low bits an altered byte has flipped: b ^= 0x07 or b ^= 0xFF.
FlippedBits == {3, 8}

\* One byte of the payload changed in transit: its w low bits are flipped.
MutateByte(payload, i, w) ==
    [payload EXCEPT ![i] = (@ - (@ % 2^w)) + (2^w - 1 - (@ % 2^w))]

\* The three-party DKG sessions with threshold 1: the party list of the
\* end-to-end test and a list whose IDs are not their list positions.
TamperedKeygenSessions ==
    [proto : {"keygen"}, parties : { <<"1", "2", "3">>, <<"2", "3", "1">> },
     thr : {1}, key : {NoKey}, msg : {0}]

\* The environment changes one byte of the payload of the next message of
\* a channel before it is delivered.
Tamper(from, to) ==
    /\ injected < MaxInject
    /\ net[<<from, to>>] # <<>>
    /\ \E i \in 1..Len(Head(net[<<from, to>>]).payload), w \in FlippedBits :
          net' = [net EXCEPT ![<<from, to>>] =
                    << [Head(@) EXCEPT !.payload = MutateByte(@, i, w)] >> \o Tail(@)]
    /\ injected' = injected + 1
    /\ UNCHANGED <<proto, parties, key, thr, msgToSign, rnd, sm, last, duplicated>>

InitTamper == InitOf(SmallSessions \cup TamperedKeygenSessions, {0})

NextTamper ==
    \/ \E from \in Members, to \in Members : DeliverInOrder(from, to)
    \/ \E from \in Members, to \in Members : Tamper(from, to)

\* Honest parties, delivery in a fixed order, and at most MaxInject messages
\* changed in transit.
SpecTamper == InitTamper /\ [][NextTamper]_vars

\* Pre-signing sessions (no digest) and online sessions (a PreSignature per
\* party and a digest) over the key of the three-party DKG.
PreSignSessions ==
    [proto : {"sign"}, parties : { <<"1", "2">>, <<"1", "2", "3">> },
     thr : {1}, key : Keys3, msg : {NoDigest}]

OnlineSessions ==
    [proto : {"online"}, parties : { <<"1", "2">>, <<"1", "2", "3">> },
     thr : {1}, key : Keys3, msg : {1, 3}]

\* Batch signing sessions over the key of the three-party DKG: the callers
\* hand NewBatchSignStateMachine a list of one or two digests.
BatchSessions ==
    [proto : {"batch"}, parties : { <<"1", "2">>, <<"1", "2", "3">> },
     thr : {1}, key : Keys3, msg : { <<1>>, <<3>>, <<1, 3>>, <<3, 1>> }]

InitBatch == InitOf(BatchSessions, 0..1)

\* Honest batch signing, delivered round by round.
SpecBatch == InitBatch /\ [][NextSync]_vars

InitPreSign == InitOf(PreSignSessions \cup OnlineSessions, 0..1)

\* Honest pre-signing and online signing, delivered round by round.
SpecPreSign == InitPreSign /\ [][NextSync]_vars

\* The caller constructs one more Reshare instance, for any party ID, and
\* keeps what the constructor returned; the session is left as it is.
NewStateMachineCall(id) ==
    /\ proto = "reshare"
    /\ last' = [valid |-> TRUE, honest |-> FALSE, party |-> id,
                msg |-> Msg(id, "", "NewStateMachine", 0, <<>>),
                pre |-> NoInstance, ret |-> ReshareNewStateMachine(id)]
    /\ UNCHANGED <<proto, parties, key, thr, msgToSign, rnd, sm, net, injected, duplicated>>

InitReshare == InitOf(ReshareSessions, 0..1)

NextReshare ==
    \/ \E from \in Members, to \in Members : DeliverInRound(from, to)
    \/ \E id \in Senders : NewStateMachineCall(id)

\* Honest Reshare sessions, delivered round by round, with further
\* constructor calls at any time.
SpecReshare == InitReshare /\ [][NextReshare]_vars

\* Longest payload a dishonest DKG peer decommits with, and the byte values
\* it is made of.
MaxFuzzLen == 4
FuzzBytes == {1, 5}

\* The payloads salt || data of the fuzzed Decommit: every length from the
\* empty payload to a full one (salt, Paillier N, t+1 VSS points).
FuzzData == UNION { [1..n -> FuzzBytes] : n \in 0..MaxFuzzLen }

\* A dishonest peer from commits, towards party to, to a payload of its own
\* making: the round-1 broadcast carries the hash of that payload.
ForgeCommit(from, to) ==
    /\ injected < MaxInject
    /\ proto = "keygen"
    /\ net[<<from, to>>] # <<>>
    /\ Head(net[<<from, to>>]).type = "KeyGenRound1"
    /\ \E d \in FuzzData :
          net' = [net EXCEPT ![<<from, to>>] =
                    << [Head(@) EXCEPT !.payload = Sha256(d)] >> \o Tail(@)]
    /\ injected' = injected + 1
    /\ UNCHANGED <<proto, parties, key, thr, msgToSign, rnd, sm, last, duplicated>>

\* The dishonest peer decommits with the payload whose hash party to stored
\* as its commitment.
ForgeDecommit(from, to) ==
    /\ proto = "keygen"
    /\ net[<<from, to>>] # <<>>
    /\ Head(net[<<from, to>>]).type = "KeyGenRound2_Decommit"
    /\ sm[to].kind = "state"
    /\ sm[to].round = 2
    /\ \E d \in FuzzData :
          /\ d # Head(net[<<from, to>>]).payload
          /\ Sha256(d) = MapGet(sm[to].temp.peerComm, from)
          /\ net' = [net EXCEPT ![<<from, to>>] =
                       << [Head(@) EXCEPT !.payload = d] >> \o Tail(@)]
    /\ injected' = injected + 1
    /\ UNCHANGED <<proto, parties, key, thr, msgToSign, rnd, sm, last, duplicated>>

\* One-round DKG sessions over every party list.
DirectSessions ==
    { ses \in [proto : {"keygen1"}, parties : PartyLists, thr : 1..2,
               key : {NoKey}, msg : {0}] : ses.thr < Len(ses.parties) }

InitDirect == InitOf(DirectSessions, 0..1)

\* Honest one-round DKG, every message delivered, in any order that keeps
\* each channel first-in first-out.
SpecDirect == InitDirect /\ [][NextAsync]_vars

InitFuzz == InitOf({ ses \in KeygenSessions : ses.thr = 1 }, 0..1)

NextFuzz ==
    \/ \E from \in Members, to \in Members : DeliverInOrder(from, to)
    \/ \E from \in Members, to \in Members : ForgeCommit(from, to)
    \/ \E from \in Members, to \in Members : ForgeDecommit(from, to)

\* DKG sessions in which one peer commits to and decommits with a payload
\* of any length and content, as FuzzRound3Decommit feeds round 3.
SpecFuzz == InitFuzz /\ [][NextFuzz]_vars

(***************************************************************************)
(* Properties of the Update contract, stated over the record of the last   *)
(* call: the instance before the call (pre), the message, and the return   *)
(* (ret), whose field self is the instance after the call.                 *)
(***************************************************************************)
\* The received-message buffer once the message of the last call is stored.
BufferAfter ==
    MapPut(last.pre.recv, last.msg.from, Append(MapGet(last.pre.recv, last.msg.from), last.msg))

\* The last call handed back a state in a later round, or the finished state.
Advanced ==
    /\ last.valid
    /\ last.pre.kind = "state"
    /\ last.ret.err = ""
    /\ last.ret.nk # "nil"
    /\ (last.ret.next.kind = "finished" \/ last.ret.next.round > last.pre.round)

\* No party is ready for the next message of any channel.
Quiescent == \A from \in Members, to \in Members : ~Deliverable(from, to)

\* C1: in DKG, Sign and Refresh an Update returns a state in a later round
\* only when the buffer holds, from each of the other parties of the party
\* list, as many messages as the current round expects from a party.
C1_GateWaitsForEveryListedPeer ==
    (Advanced /\ proto \in {"keygen", "sign", "refresh"}) =>
        \A p \in SeqToSet(parties) \ {last.party} :
            Len(MapGet(BufferAfter, p)) >= Cardinality(RoundTypes(last.pre.round))

\* C2: an honest DKG run that has come to rest has every party finished,
\* all with the same public key, the sum of the constant-term commitments,
\* and each with the public share XiPoint = Xi * G.
C2_DkgCompleteness ==
    (proto = "keygen" /\ Quiescent) =>
        /\ \A id \in Members : sm[id].kind = "finished"
        /\ \A id \in Members :
              /\ sm[id].save.PublicKey =
                    ModQ(SumSeq([i \in 1..Len(parties) |-> ScalarBaseMult(rnd[parties[i]].poly[1])]))
              /\ sm[id].save.XiPoint = ScalarBaseMult(sm[id].save.Xi)

\* C3: a finished Sign instance holds a signature that passes ECDSA
\* verification of the message against the public key, and the call whose
\* round 5 fails the verification returns an error and no next state, and
\* leaves the party unfinished.
C3_SignFinishesOnlyVerified ==
    proto = "sign" =>
        /\ \A id \in Members :
              sm[id].kind = "finished" =>
                  EcdsaVerify(msgToSign, sm[id].sig.R, sm[id].sig.S, ScalarBaseMult(key.poly[1]))
        /\ (/\ last.valid
            /\ last.pre.kind = "state"
            /\ last.pre.round = 4
            /\ last.ret.self.recv # last.pre.recv
            /\ DOMAIN last.ret.self.recv = SeqToSet(parties) \ {last.party}
            /\ \A p \in DOMAIN last.ret.self.recv :
                  Len(last.ret.self.recv[p][1].payload) = 1
            /\ ~EcdsaVerify(msgToSign, last.ret.self.temp.r, SignFinalS(last.ret.self),
                            ScalarBaseMult(key.poly[1])))
           => /\ last.ret.err = "signature verification failed"
              /\ last.ret.nk = "nil"
              /\ sm[last.party].kind = "state"

\* C3 witness: a Sign call completed the protocol, and its signature verifies.
C3_Witness ==
    /\ proto = "sign"
    /\ last.valid
    /\ last.ret.nk = "finished"
    /\ sm[last.party].kind = "finished"
    /\ EcdsaVerify(msgToSign, sm[last.party].sig.R, sm[last.party].sig.S,
                   ScalarBaseMult(key.poly[1]))

\* C4: in an honest DKG of three parties under every delivery order that
\* keeps each channel first-in first-out, no Update returns an error and a
\* run at rest has every party finished.
C4_AnyInterleavingSucceeds ==
    (proto = "keygen" /\ parties = <<"1", "2", "3">>) =>
        /\ last.valid => last.ret.err = ""
        /\ (\A ch \in DOMAIN net : net[ch] = <<>>) =>
              \A id \in Members : sm[id].kind = "finished"

\* C5: an Update with a message of a lower round than the current one is
\* dropped silently: no error, no outbound message, and the instance (round
\* and buffer) as before.
C5_LowerRoundDropped ==
    (last.valid /\ last.pre.kind = "state" /\ last.msg.round < last.pre.round) =>
        /\ last.ret.err = ""
        /\ last.ret.out = <<>>
        /\ last.ret.self = last.pre

\* C6: an Update with a message of a higher round than the current one
\* returns the out-of-order error and leaves the buffer as before.
C6_HigherRoundRejected ==
    (last.valid /\ last.pre.kind = "state" /\ last.msg.round > last.pre.round) =>
        /\ last.ret.err = "received message for unexpected round"
        /\ last.ret.self.recv = last.pre.recv
        /\ sm[last.party].recv = last.pre.recv

\* C6 witness: a message of the round after the current one was fed to an
\* instance and rejected.
C6_Witness ==
    /\ last.valid
    /\ last.pre.kind = "state"
    /\ last.msg.round = last.pre.round + 1
    /\ last.ret.err = "received message for unexpected round"

\* The buffer of the instance of the last call already held a message of
\* the sender and type of the message, which is of the current round.
DuplicateFed ==
    /\ last.valid
    /\ last.pre.kind = "state"
    /\ last.msg.round = last.pre.round
    /\ \E i \in 1..Len(MapGet(last.pre.recv, last.msg.from)) :
          last.pre.recv[last.msg.from][i].type = last.msg.type

\* C7: an Update with a message of the current round whose sender and type
\* are those of a message already in the buffer returns the duplicate error
\* and leaves round, buffer and temporary data as before.
C7_DuplicateRejected ==
    DuplicateFed =>
        /\ last.ret.err = "duplicate message type"
        /\ last.ret.self = last.pre
        /\ sm[last.party] = last.pre

\* C7 witness: a duplicate reached an instance whose buffer is not empty.
C7_Witness ==
    /\ DuplicateFed
    /\ last.pre.recv # <<>>
    /\ last.ret.err = "duplicate message type"

\* C8: an Update with a message of the current round whose sender is the
\* local party returns no error and no outbound message, changes nothing,
\* and returns the instance itself as the next state.
C8_OwnMessageReturnsSameState ==
    (/\ last.valid
     /\ last.pre.kind = "state"
     /\ last.msg.round = last.pre.round
     /\ last.msg.from = last.party) =>
        /\ last.ret.err = ""
        /\ last.ret.out = <<>>
        /\ last.ret.self = last.pre
        /\ last.ret.nk = "same"

\* C9: an Update on a finished state changes nothing and returns
\* ErrProtocolDone.
C9_FinishedReturnsProtocolDone ==
    (last.valid /\ last.pre.kind = "finished") =>
        /\ last.ret.self = last.pre
        /\ last.ret.err = "ErrProtocolDone"

\* C10: the Update that completes a protocol returns a nil next state and no
\* error, and Result() of the state that received the call is not nil.
C10_CompletingUpdateReturnsNil ==
    (/\ last.valid
     /\ last.pre.kind = "state"
     /\ last.ret.err = ""
     /\ sm[last.party].kind = "finished") =>
        /\ last.ret.nk = "nil"
        /\ ~ResultIsNil(last.ret.self)

\* A finished instance whose Result() carries the output of the protocol.
HoldsOutput(s) ==
    /\ s.kind = "finished"
    /\ ~ResultIsNil(s)
    /\ CASE proto = "sign" -> s.sig.R # -1 /\ s.sig.S # -1
         [] OTHER -> s.save.Xi # -1 /\ s.save.PublicKey # -1

\* C11 as stated: Result() is nil on every instance that is not finished
\* and the output of the protocol on every finished instance.
C11_ResultIffFinished ==
    \A id \in Members :
        /\ sm[id].kind # "finished" => ResultIsNil(sm[id])
        /\ sm[id].kind = "finished" => HoldsOutput(sm[id])

\* C11 amended: Result() is nil on every instance that is not finished, and
\* the output of the protocol on every finished instance except that of a
\* reshare party outside the new committee, which has no output.
C11_ResultIffFinishedWithOutput ==
    \A id \in Members :
        /\ sm[id].kind # "finished" => ResultIsNil(sm[id])
        /\ (sm[id].kind = "finished" /\ (proto = "reshare" => IsNew(id)))
              => HoldsOutput(sm[id])

\* C11 witness: a party finished and its instance holds the output while
\* another party has not finished yet.
C11_Witness ==
    \E id \in Members, other \in Members :
        /\ HoldsOutput(sm[id])
        /\ sm[other].kind = "state"
        /\ ResultIsNil(sm[other])

\* The share the polynomial of party from gives to the party at the list
\* position of party to.
ShareAtPosition(from, to) == Evaluate(sm[from].temp.poly, IndexOf(parties, to))

\* C12: in DKG and Refresh the index of a party is its 1-based position in
\* the party list, for the sender and for the receiver of a share: every
\* share message carries the sender's polynomial at the receiver's position,
\* and the call that runs round 3 accepts the shares and leaves the sum of
\* the polynomials at the receiver's own position (added to the old share in
\* Refresh) as the receiver's share.
C12_ShareIndexIsListPosition ==
    (/\ last.valid
     /\ proto \in {"keygen", "refresh"}
     /\ last.pre.kind = "state"
     /\ last.pre.round = 2) =>
        /\ last.msg.type \in {"KeyGenRound2_Share", "RefreshRound2_Share"}
              => last.msg.payload = <<ShareAtPosition(last.msg.from, last.party)>>
        /\ (last.ret.err # "" \/ last.ret.self.round = 3) =>
              /\ last.ret.err = ""
              /\ last.ret.self.save.Xi =
                    ModQ((IF proto = "refresh" THEN last.pre.save.Xi ELSE 0)
                         + SumSeq([n \in 1..Len(parties) |->
                                     ShareAtPosition(parties[n], last.party)]))

\* The last call is an Update of DKG round 2 whose message completes the
\* buffer, so that it runs round 3.
TriggersKeygenRound3 ==
    /\ last.valid
    /\ proto = "keygen"
    /\ last.pre.kind = "state"
    /\ last.pre.round = 2
    /\ last.msg.round = 2
    /\ last.msg.from # last.party
    /\ \A p \in Members \ {last.party} :
          Len(MapGet(BufferAfter, p)) >= Cardinality(RoundTypes(2))

\* The peers whose buffered round-2 Decommit does not hash to the commitment
\* they broadcast in round 1.
BadDecommitters ==
    { id \in DOMAIN BufferAfter :
        \E i \in 1..Len(BufferAfter[id]) :
            /\ BufferAfter[id][i].type = "KeyGenRound2_Decommit"
            /\ ~CommitmentVerify(Construct(id).out[1].payload,
                                 BufferAfter[id][i].payload[1],
                                 Tail(BufferAfter[id][i].payload)) }

\* C13: in DKG, when the round-2 Decommit of a peer does not hash to the
\* commitment the peer broadcast in round 1, the Update that runs round 3
\* returns a Blame error with that peer's PartyID and the reason
\* "commitment verification failed".
C13_TamperedDecommitBlamesPeer ==
    (TriggersKeygenRound3 /\ BadDecommitters # {}) =>
        /\ last.ret.err = "commitment verification failed"
        /\ last.ret.blame \in BadDecommitters

\* C14: when the round-3 verification of DKG fails on a peer's tampered
\* round-2 payload, no state advances: the instance stays in round 2, the
\* Update emits no message, and the instance records no key data derived
\* from the round-2 messages (peer Paillier keys, x_i, the public key).
C14_FailedRound3LeavesNoTrace ==
    (/\ TriggersKeygenRound3
     /\ injected > 0
     /\ last.ret.err \in {"commitment verification failed",
                          "vss share verification failed"}) =>
        /\ last.ret.self.kind = "state"
        /\ last.ret.self.round = 2
        /\ sm[last.party].round = 2
        /\ last.ret.out = <<>>
        /\ last.ret.self.save = last.pre.save

\* The errors of the round bodies that report a failed verification of a
\* peer's payload: commitment, VSS share, Schnorr proof, Paillier decryption.
VerificationFailures ==
    {"commitment verification failed", "vss share verification failed",
     "schnorr proof verification failed", "schnorr proof failed",
     "failed to decrypt alpha", "failed to decrypt mu"}

\* C15: in every protocol, a failed commitment, VSS share, Schnorr proof or
\* Paillier decryption check of a peer's payload is returned as a Blame
\* error that carries the PartyID of that peer, one of the senders of the
\* buffered messages, and a reason.
C15_VerificationFailureIsBlame ==
    (last.valid /\ last.ret.err \in VerificationFailures) =>
        /\ last.ret.blame \in DOMAIN BufferAfter
        /\ last.ret.blame # last.party

\* C16: an honest signing run over the key data of an honest DKG that has
\* come to rest has every party of the signing list finished, all holding
\* the same signature (r, S).
C16_HonestSignAllFinishIdentical ==
    (proto = "sign" /\ Quiescent) =>
        /\ \A id \in Members : sm[id].kind = "finished"
        /\ \A id \in Members :
              /\ sm[id].sig.R # -1
              /\ sm[id].sig = sm[parties[1]].sig

\* C17: for every signing list, the full list of the DKG or a reduced list
\* of t+1 of its parties, the values w_i = lambda_i * Xi that round 1 left
\* in the members' instances add up to the joint secret key x modulo q.
C17_LagrangeSharesSumToKey ==
    (proto = "sign" /\ \A id \in Members : sm[id].kind = "state") =>
        ModQ(SumSeq([n \in 1..Len(parties) |-> sm[parties[n]].temp.wi])) = key.poly[1]

\* The last call is an Update of Sign round 3 whose message completes the
\* buffer with well-formed delta messages, so that it runs round 4.
TriggersSignRound4 ==
    /\ last.valid
    /\ proto = "sign"
    /\ last.pre.kind = "state"
    /\ last.pre.round = 3
    /\ last.msg.round = 3
    /\ last.msg.from \notin (DOMAIN last.pre.recv) \cup {last.party}
    /\ SeqToSet(parties) \ {last.party} \subseteq DOMAIN BufferAfter
    /\ \A id \in DOMAIN BufferAfter : Len(BufferAfter[id][1].payload) = 1

\* delta = sum of the delta_j, and Gamma = sum of the Gamma_j, as the
\* instance of the last call holds them when round 4 starts.
Round4Delta ==
    ModQ(last.pre.temp.delta_i
         + SumSeq([n \in 1..Len(parties) |->
                     IF parties[n] \in DOMAIN BufferAfter
                       THEN BufferAfter[parties[n]][1].payload[1] ELSE 0]))

Round4Gamma ==
    ModQ(last.pre.temp.Gamma
         + SumSeq([n \in 1..Len(parties) |->
                     IF parties[n] \in DOMAIN last.pre.temp.peerGamma
                       THEN last.pre.temp.peerGamma[parties[n]] ELSE 0]))

\* delta is 0, or r, the x-coordinate of delta^-1 * Gamma, is 0.
Round4Degenerate ==
    \/ Round4Delta = 0
    \/ ModQ(ScalarMult(Round4Gamma, ModInverse(Round4Delta))) = 0

\* C18: when delta = sum of the delta_j is 0 mod q, or r is 0, round 4 of
\* Sign fails with an error, broadcasts no s_i and the instance stays in
\* round 3.
C18_DegenerateRound4Fails ==
    (TriggersSignRound4 /\ Round4Degenerate) =>
        /\ last.ret.err # ""
        /\ last.ret.nk = "nil"
        /\ last.ret.out = <<>>
        /\ sm[last.party].kind = "state"
        /\ sm[last.party].round = 3
        /\ \A id \in Members \ {last.party} :
              \A n \in 1..Len(net[<<last.party, id>>]) :
                  net[<<last.party, id>>][n].type # "SignRound4_Si"

\* C18 witness: round 4 ran on a delta that is 0 and returned its error.
C18_Witness ==
    /\ TriggersSignRound4
    /\ Round4Delta = 0
    /\ last.ret.err = "delta is not invertible"

\* What Result() of a Sign instance is: nil on a running instance, the
\* signature of a finished state that holds one, else its preSignature field.
SignResultKind(s) ==
    IF s.kind # "finished" THEN "nil"
    ELSE IF s.sig.R # -1 THEN "Signature"
    ELSE "PreSignature"

\* C19: a pre-signing instance, created without a digest, never broadcasts
\* an s_i, and the Update that brings the last round-3 delta message makes
\* it Finished in round 4 with a PreSignature as its Result.
C19_PreSignStopsInRound4 ==
    (proto = "sign" /\ msgToSign = NoDigest) =>
        /\ \A from \in Members, to \in Members :
              \A n \in 1..Len(net[<<from, to>>]) :
                  net[<<from, to>>][n].type # "SignRound4_Si"
        /\ (TriggersSignRound4 /\ ~Round4Degenerate) =>
              /\ last.ret.err = ""
              /\ last.ret.out = <<>>
              /\ sm[last.party].kind = "finished"
              /\ SignResultKind(sm[last.party]) = "PreSignature"

\* The last call is an Update of an online instance whose message is the
\* s_j of the last peer still missing.
CompletesOnlineRound ==
    /\ last.valid
    /\ proto = "online"
    /\ last.pre.kind = "state"
    /\ last.msg.round = 4
    /\ last.msg.from \notin (DOMAIN last.pre.recv) \cup {last.party}
    /\ DOMAIN BufferAfter = SeqToSet(parties) \ {last.party}

\* C20: an online instance broadcasts s_i = m * k_i + r * sigma_i once, at
\* construction, and nothing afterwards; the Update that brings the s_j of
\* the last peer makes it Finished with a signature that verifies against
\* the digest and the public key.
C20_OnlineSignsInOneRound ==
    proto = "online" =>
        /\ \A id \in Members :
              Construct(id).out =
                 << Msg(id, Bcast, "SignRound4", 4,
                        << ModQ(msgToSign * PreSignatureOf(id).Ki
                                + PreSignatureOf(id).R * PreSignatureOf(id).SigmaI) >>) >>
        /\ last.valid => last.ret.out = <<>>
        /\ \A from \in Members, to \in Members :
              \/ from = to
              \/ sm[to].kind = "finished"
              \/ Len(net[<<from, to>>]) + Len(MapGet(sm[to].recv, from)) = 1
        /\ CompletesOnlineRound =>
              /\ last.ret.err = ""
              /\ sm[last.party].kind = "finished"
              /\ SignResultKind(sm[last.party]) = "Signature"
              /\ sm[last.party].sig.S = SignFinalS(last.ret.self)
              /\ EcdsaVerify(msgToSign, sm[last.party].sig.R, sm[last.party].sig.S,
                             ScalarBaseMult(key.poly[1]))

\* C20 witness: an online instance finished on the s_j of its last peer.
C20_Witness ==
    /\ CompletesOnlineRound
    /\ Len(parties) = 3
    /\ sm[last.party].kind = "finished"
    /\ SignResultKind(sm[last.party]) = "Signature"

\* C21: the key data a finished Refresh instance holds has the public key
\* of the key data the instance was constructed with.
C21_RefreshPreservesPublicKey ==
    proto = "refresh" =>
        \A id \in Members :
            sm[id].kind = "finished" =>
                /\ sm[id].save.PublicKey = KeyData(id).PublicKey
                /\ sm[id].save.PublicKey = sm[id].old.PublicKey

\* C21 witness: a Refresh call finished the instance, which holds new key
\* data with the public key of the old.
C21_Witness ==
    /\ proto = "refresh"
    /\ last.valid
    /\ last.pre.kind = "state"
    /\ sm[last.party].kind = "finished"
    /\ sm[last.party].save.PublicKey = ScalarBaseMult(key.poly[1])

\* C22: an honest Reshare run that has come to rest has every party of the
\* new committee finished, holding key data with the public key of the old
\* committee.
C22_ReshareKeepsPublicKey ==
    (proto = "reshare" /\ Quiescent) =>
        \A id \in Members :
            IsNew(id) =>
                /\ sm[id].kind = "finished"
                /\ sm[id].hasSave
                /\ sm[id].save.PublicKey = ScalarBaseMult(key.poly[1])

\* The buffer of the last call holds a message of type ty from party p.
BufferHas(p, ty) ==
    \E n \in 1..Len(MapGet(BufferAfter, p)) : BufferAfter[p][n].type = ty

\* C23: a Reshare instance leaves round 2 only when its buffer holds a
\* round-2 Decommit of every other party of the old and the new committee
\* and, for a member of the new committee, a round-2 Share of every other
\* party of the old committee.
C23_ReshareRound2Gate ==
    (Advanced /\ proto = "reshare" /\ last.pre.round = 2) =>
        /\ \A p \in Members \ {last.party} : BufferHas(p, "ReshareRound2_Decommit")
        /\ IsNew(last.party) =>
              \A p \in SeqToSet(key.list) \ {last.party} :
                  BufferHas(p, "ReshareRound2_Share")

\* C24: a Reshare party of the old committee only sends no round-3 message,
\* and when the honest run has come to rest it is finished with a Result()
\* that is nil.
C24_OldOnlyPartyTerminates ==
    proto = "reshare" =>
        \A id \in Members :
            ~IsNew(id) =>
                /\ \A to \in Members :
                      \A n \in 1..Len(net[<<id, to>>]) : net[<<id, to>>][n].round < 3
                /\ (last.valid /\ last.party = id /\ last.pre.kind = "state"
                      /\ last.pre.round >= 2) => last.ret.out = <<>>
                /\ Quiescent => (sm[id].kind = "finished" /\ ResultIsNil(sm[id]))

\* C25: reshare.NewStateMachine called for a party that is in neither the
\* old nor the new committee returns an error, no instance and no messages.
C25_OutsiderConstructionFails ==
    (/\ last.valid
     /\ last.msg.type = "NewStateMachine"
     /\ last.party \notin SeqToSet(key.list) \cup SeqToSet(parties)) =>
        /\ last.ret.err # ""
        /\ last.ret.nk = "nil"
        /\ last.ret.next = NoInstance
        /\ last.ret.out = <<>>

\* C25 witness: the constructor was called for a party of neither committee
\* and returned its error.
C25_Witness ==
    /\ last.valid
    /\ last.msg.type = "NewStateMachine"
    /\ ~IsOld(last.party) /\ ~IsNew(last.party)
    /\ last.ret.err = "party is not in old or new committee"

\* C26: after every round transition of an instance of any protocol the
\* received-message buffer of the resulting state is empty.
C26_BufferClearedAtRoundBoundary ==
    Advanced =>
        /\ last.ret.next.recv = <<>>
        /\ sm[last.party].recv = <<>>

\* C26 witness: an Update stored a message, ran the round body and handed
\* back a running state of the next round with an empty buffer.
C26_Witness ==
    /\ Advanced
    /\ last.ret.next.kind = "state"
    /\ last.pre.recv # <<>>
    /\ sm[last.party].recv = <<>>

\* C27: the round number of an instance never decreases from one state
\* returned by Update to the next, and a round transition increases it by
\* exactly one: a running state handed back by Update, and the instance the
\* caller holds after the call, are in the round of the instance before the
\* call or in the next one.
C27_RoundMonotone ==
    (last.valid /\ last.pre.kind = "state") =>
        /\ (last.ret.err = "" /\ last.ret.nk # "nil" /\ last.ret.next.kind = "state") =>
              last.ret.next.round \in {last.pre.round, last.pre.round + 1}
        /\ last.ret.self.round \in {last.pre.round, last.pre.round + 1}
        /\ sm[last.party].kind = "state" =>
              sm[last.party].round \in {last.pre.round, last.pre.round + 1}

\* C27 witness: an Update handed back a running state of the next round.
C27_Witness ==
    /\ last.valid
    /\ last.pre.kind = "state"
    /\ last.ret.err = ""
    /\ last.ret.next.kind = "state"
    /\ last.ret.next.round = last.pre.round + 1
    /\ sm[last.party].round = last.pre.round + 1

\* The Update that hands a DKG instance in round 1 the last of the n-1
\* round-1 commitments of its peers.
LastRound1Commitment ==
    /\ proto = "keygen"
    /\ last.valid
    /\ last.pre.kind = "state"
    /\ last.pre.round = 1
    /\ last.msg.round = 1
    /\ last.msg.type = "KeyGenRound1"
    /\ last.msg.from # last.party
    /\ last.msg.from \notin DOMAIN last.pre.recv
    /\ DOMAIN last.pre.recv \cup {last.msg.from} = SeqToSet(parties) \ {last.party}

\* The positions of the returned messages of type ty.
OutOfType(ty) == { i \in 1..Len(last.ret.out) : last.ret.out[i].type = ty }

InvokesKeygenRound3 ==
    /\ last.valid
    /\ proto = "keygen"
    /\ last.pre.kind = "state"
    /\ last.pre.round = 2
    /\ last.msg.round = 2
    /\ last.msg.from # last.party
    /\ ~DuplicateFed
    /\ Cardinality(DOMAIN BufferAfter) >= Len(parties) - 1
    /\ \A id \in DOMAIN BufferAfter : Len(BufferAfter[id]) >= KeygenExpectedCount(2)

\* The number of messages of type ty the buffer holds from p.
BufferCount(p, ty) ==
    Cardinality({ n \in 1..Len(MapGet(BufferAfter, p)) : BufferAfter[p][n].type = ty })

\* C29: a DKG instance in round 2 invokes the round-3 body only when, for
\* each of the n-1 peers, the buffer holds exactly one Decommit message and
\* exactly one Share message from that peer.
C29_Round3NeedsDecommitAndShare ==
    InvokesKeygenRound3 =>
        \A p \in SeqToSet(parties) \ {last.party} :
            /\ BufferCount(p, "KeyGenRound2_Decommit") = 1
            /\ BufferCount(p, "KeyGenRound2_Share") = 1

\* The round-3 body ran exactly in the calls that passed the test: every
\* return of round 3 comes from such a call.
Round3RanOnlyThroughGate ==
    (/\ last.valid /\ proto = "keygen" /\ last.pre.kind = "state" /\ last.pre.round = 2
     /\ (Advanced \/ last.ret.err = "missing messages from party"))
        => InvokesKeygenRound3

\* The key data the constructor was handed, which the instance refers to and
\* which instances built from the same key data have in common.
SharedKeyData(s) ==
    CASE proto \in {"sign", "online"} -> s.save
      [] proto \in {"refresh", "reshare"} -> s.old
      [] OTHER -> <<>>

C31_UpdateLeavesReceiverUnchanged ==
    (last.valid /\ last.pre.kind = "state") =>
        /\ last.ret.self.round = last.pre.round
        /\ last.ret.self.recv = last.pre.recv
        /\ last.ret.self.temp = last.pre.temp

\* The round-2 Decommit of every sender in the buffer hashes to the
\* commitment the instance stored for that sender in round 1.
DecommitsMatchCommitments ==
    \A id \in DOMAIN BufferAfter :
        \A n \in 1..Len(BufferAfter[id]) :
            BufferAfter[id][n].type = "KeyGenRound2_Decommit" =>
                /\ Len(BufferAfter[id][n].payload) >= 1
                /\ CommitmentVerify(MapGet(last.pre.temp.peerComm, id),
                                    BufferAfter[id][n].payload[1],
                                    Tail(BufferAfter[id][n].payload))

\* The call ended in a Go run-time panic instead of a return.
Panicked ==
    last.ret.err \in {"panic: slice bounds out of range", "panic: nil pointer dereference"}

\* C32: DKG round 3 never crashes: for every round-2 Decommit payload of any
\* length and content whose hash matches the stored commitment, round 3
\* returns either an error or a successor state.
C32_Round3NeverPanics ==
    (InvokesKeygenRound3 /\ DecommitsMatchCommitments) => ~Panicked

\* The Lagrange coefficient at 0 of index j over the indices others \cup {j}:
\* the product of m / (m - j) over m in others.
RECURSIVE LagrangeOver(_, _)
LagrangeOver(others, j) ==
    IF others = {} THEN 1
    ELSE LET m == CHOOSE x \in others : TRUE
         IN  ModQ(m * ModInverse(ModQ(m - j)) * LagrangeOver(others \ {m}, j))

\* sum over j in S of lambda_j * X_j, for a set S of 1-based list positions.
RECURSIVE AggregateShares(_, _)
AggregateShares(S, rest) ==
    IF rest = {} THEN 0
    ELSE LET j == CHOOSE x \in rest : TRUE
         IN  PointAdd(ScalarMult(sm[parties[j]].save.XiPoint, LagrangeOver(S \ {j}, j)),
                      AggregateShares(S, rest \ {j}))

\* Every party of the DKG holds a finished instance.
KeygenAllFinished ==
    /\ proto = "keygen"
    /\ \A id \in Members : sm[id].kind = "finished"

CompletesDirectRound ==
    /\ proto = "keygen1"
    /\ last.valid
    /\ last.pre.kind = "state"
    /\ last.pre.round = 1
    /\ last.msg.round = 1
    /\ last.msg.from # last.party
    /\ ~DuplicateFed
    /\ \A p \in SeqToSet(parties) \ {last.party} :
          /\ BufferCount(p, "KeyGen1Round_Direct_Broadcast") = 1
          /\ BufferCount(p, "KeyGen1Round_Direct_Share") = 1

\* C34: in one-round (direct) DKG mode with honest parties, every instance
\* goes from round 1 straight to the finished state on the Update that
\* completes the receipt of one broadcast and one share from each of the n-1
\* peers, and that Update, like every Update of the mode, returns no message
\* to send.
C34_DirectFinishesInOneRound ==
    /\ (proto = "keygen1" /\ last.valid) => last.ret.out = <<>>
    /\ (proto = "keygen1" /\ last.valid /\ last.ret.err = "" /\ last.ret.nk # "nil") =>
          \/ last.ret.next.kind = "finished"
          \/ last.ret.next.round = 1 /\ ~CompletesDirectRound
    /\ CompletesDirectRound =>
          /\ last.ret.err = ""
          /\ last.ret.next.kind = "finished"
          /\ sm[last.party].kind = "finished"

\* The round-2 Decommit messages of the three protocols that commit in round 1.
DecommitTypes == {"KeyGenRound2_Decommit", "RefreshRound2_Decommit", "ReshareRound2_Decommit"}

\* C35: in DKG, Refresh and Reshare the CommitData an honest party
\* broadcasts after the salt in round 2 is byte for byte the data it
\* committed to in round 1: every Decommit in the round-2 buffer of an honest
\* receiver hashes, with its salt, to the commitment the receiver stored for
\* the sender, and no Update fails commitment verification.
C35_HonestDecommitVerifies ==
    proto \in {"keygen", "refresh", "reshare"} =>
        /\ last.valid => last.ret.err # "commitment verification failed"
        /\ \A id \in Members :
              (sm[id].kind = "state" /\ sm[id].round = 2) =>
                  \A p \in DOMAIN sm[id].recv :
                      \A n \in 1..Len(sm[id].recv[p]) :
                          sm[id].recv[p][n].type \in DecommitTypes =>
                              CommitmentVerify(MapGet(sm[id].temp.peerComm, p),
                                               sm[id].recv[p][n].payload[1],
                                               Tail(sm[id].recv[p][n].payload))

\* The last call is an Update of a DKG instance in round 3 that stored its
\* message and passed the completeness test, so that it ran the round-4 body.
InvokesKeygenRound4 ==
    /\ last.valid
    /\ proto = "keygen"
    /\ last.pre.kind = "state"
    /\ last.pre.round = 3
    /\ last.msg.round = 3
    /\ last.msg.from # last.party
    /\ ~DuplicateFed
    /\ Cardinality(DOMAIN BufferAfter) >= Len(parties) - 1
    /\ \A id \in DOMAIN BufferAfter : Len(BufferAfter[id]) >= KeygenExpectedCount(3)

\* The round-3 message the buffer holds from p carries a public share X_j
\* with a Schnorr proof that verifies, and X_j is the point the VSS
\* commitments of all parties predict for the 1-based list position of p.
PeerShareVerified(p) ==
    /\ p \in DOMAIN BufferAfter
    /\ Len(BufferAfter[p][1].payload) = 3
    /\ SchnorrVerify([R |-> BufferAfter[p][1].payload[2], S |-> BufferAfter[p][1].payload[3]],
                     BufferAfter[p][1].payload[1])
    /\ BufferAfter[p][1].payload[1] =
          KeygenExpectedShare(last.pre.temp.allVss, DOMAIN last.pre.temp.allVss,
                              IndexOf(parties, p))

\* C36: a DKG instance reaches the finished state only if, for every peer
\* P_j, the Schnorr proof for X_j verifies and X_j equals the VSS-predicted
\* point at j, the peer's 1-based index in the party list; otherwise round 4
\* returns a Blame naming a peer whose proof or point fails.
C36_FinishedOnlyIfPeersVerified ==
    InvokesKeygenRound4 =>
        IF \A p \in SeqToSet(parties) \ {last.party} : PeerShareVerified(p)
          THEN last.ret.err = "" /\ last.ret.next.kind = "finished"
        ELSE /\ last.ret.err # ""
             /\ last.ret.blame \in SeqToSet(parties) \ {last.party}
             /\ ~PeerShareVerified(last.ret.blame)

\* The last call is an Update of a Refresh instance in round 3 that stored
\* its message and passed the completeness test, so that it ran round 4.
InvokesRefreshRound4 ==
    /\ last.valid
    /\ proto = "refresh"
    /\ last.pre.kind = "state"
    /\ last.pre.round = 3
    /\ last.msg.round = 3
    /\ last.msg.from # last.party
    /\ ~DuplicateFed
    /\ Cardinality(DOMAIN BufferAfter) >= Len(parties) - 1
    /\ \A id \in DOMAIN BufferAfter : Len(BufferAfter[id]) >= RefreshExpectedCount(3)

\* The new public share of party p as the instance of the last call knows
\* it: its own, or the one in the round-3 message of p.
NewPublicShare(p) ==
    IF p = last.party THEN last.pre.save.XiPoint ELSE BufferAfter[p][1].payload[1]

\* C37: a Refresh instance reaches the finished state only if the Lagrange
\* aggregation of the new public shares X_j, taken at 0 over every party of
\* the committee, equals the public key it was started with; otherwise
\* round 4 returns an error and the instance yields no key data.
C37_RefreshFinishesOnlyOnSameKey ==
    InvokesRefreshRound4 =>
        IF last.ret.err = "" /\ last.ret.nk # "nil"
          THEN /\ last.ret.next.kind = "finished"
               /\ SeqToSet(parties) \ {last.party} \subseteq DOMAIN BufferAfter
               /\ LagrangeAggregate(parties, [p \in SeqToSet(parties) |-> NewPublicShare(p)])
                     = last.pre.old.PublicKey
        ELSE /\ last.ret.err # ""
             /\ ~Panicked
             /\ ResultIsNil(sm[last.party])

\* The signatures Result() of a finished instance of a batch session holds:
\* the finished state of the sign package carries one Signature.
ResultSignatures(s) == << s.sig >>

\* C38: the state machine NewBatchSignStateMachine returns for a list of
\* k >= 1 message digests signs every one of the k messages before it
\* finishes: the result of a finished instance holds one signature per
\* message, the i-th valid for the i-th digest under the public key.
C38_BatchSignsEveryMessage ==
    proto = "batch" =>
        \A id \in Members :
            sm[id].kind = "finished" =>
                /\ Len(ResultSignatures(sm[id])) = Len(msgToSign)
                /\ \A i \in 1..Len(msgToSign) :
                      EcdsaVerify(msgToSign[i], ResultSignatures(sm[id])[i].R,
                                  ResultSignatures(sm[id])[i].S, ScalarBaseMult(key.poly[1]))

\* C39: whenever an Update of any protocol returns an error, it returns no
\* next state and no outbound messages, and the caller sends nothing.
C39_ErrorReturnsNothing ==
    (last.valid /\ last.ret.err # "" /\ ~Panicked) =>
        /\ last.ret.nk = "nil"
        /\ last.ret.out = <<>>

\* C39 witness: keygen round 3 ran on a complete buffer and returned an
\* error, or an Update on a finished instance returned one.
C39_Witness ==
    /\ last.valid
    /\ last.ret.err # ""
    /\ ~Panicked
    /\ last.ret.nk = "nil"
    /\ \/ InvokesKeygenRound3
       \/ last.pre.kind = "finished"

\* PeerPaillierPks a DKG over the party list leaves with party id: one
\* modulus for each other party of the list, none for the party itself.
PeerPaillierPksOf(id) == [p \in SeqToSet(parties) \ {id} |-> PaillierModulus(p)]

====
